---- MODULE Spec2Model ----
(***************************************************************************)
(* A model of the tensor-contraction kernel of momi (math_functions.py).   *)
(*                                                                         *)
(* Python sequences are 0-based, TLA+ sequences are 1-based: a Python      *)
(* position p of a list or tuple is element p+1 of the sequence that       *)
(* models it.  Positions stored in the state are the Python positions.     *)
(***************************************************************************)
EXTENDS Integers, Sequences, FiniteSets, TLC

(***************************************************************************)
(* Bounds of the model.                                                    *)
(***************************************************************************)
\* _next_regular is called on every target 1..MaxTarget
MaxTarget == 260

\* tensor entries are drawn from 0..MaxVal
MaxVal == 1
\* the longest axis of an operand of a one-dimensional fft_einsum call
MaxDim == 4
\* arrays of transformed_expi have at most MaxLen values v / Grid, |v| <= MaxAbs
MaxLen == 3
MaxAbs == 3
\* expm1d is called on the whole numbers -MaxX..MaxX, the infinities and nan
MaxX == 50
\* a gradient function is invoked at most MaxGradCalls times
MaxGradCalls == 2
\* the arguments of trace have axes of at most MaxTraceDim entries, at most
\* MaxEntries entries in all, and offsets -MaxOffset..MaxOffset
MaxTraceDim == 2
MaxEntries == 4
MaxOffset == 2
\* the axes and transform lengths of the differentiated calls of fftn have
\* at most MaxFftLen entries
MaxFftLen == 3
\* the components of a JackknifeGoodnessFitStat are whole numbers 0..MaxStat
MaxStat == 2
\* a command line has at most MaxCmds commands, with times -1..MaxTime
MaxCmds == 3
MaxTime == 1
\* -I names at most MaxPops populations and is followed by at most MaxEvents
\* commands in the command lines that build a graph
MaxPops == 2
MaxEvents == 2

(***************************************************************************)
(* State.                                                                  *)
(***************************************************************************)
VARIABLES
    target,     \* _next_regular: the argument of the pending/last call
    regular,    \* _next_regular: <<>> before the call, <<N>> after it returned N
    args,       \* einsum2: the caller's argument tuple
    call        \* einsum2: what the last call did (see einsum2 below)

vars == <<target, regular, args, call>>

\* the variables of each component
regularVars == <<target, regular>>
einsumVars == <<args, call>>

\* no call made yet
NoCall == [fn |-> "none"]

\* the components a specification leaves alone
RegularIdle == target = 1 /\ regular = <<>>
EinsumIdle == args = <<>> /\ call = NoCall

(***************************************************************************)
(* Python integer helpers used by _next_regular.                           *)
(***************************************************************************)
\* int.bit_length(): the number of bits of a non-negative integer
RECURSIVE bit_length(_)
bit_length(n) == IF n = 0 THEN 0 ELSE 1 + bit_length(n \div 2)

\* a & b on non-negative integers
RECURSIVE BitAnd(_, _)
BitAnd(a, b) ==
    IF a = 0 \/ b = 0 THEN 0
    ELSE (a % 2) * (b % 2) + 2 * BitAnd(a \div 2, b \div 2)

\* match = float('inf'), and an integer stored into match
Inf == [inf |-> TRUE, n |-> 0]
Fin(n) == [inf |-> FALSE, n |-> n]
\* the comparison  n < match
Less(n, match) == match.inf \/ n < match.n

\* what a loop of _next_regular hands back: either the function returned
\* value, or the loop ended with the loop variable at p and match at m
Returned(value) == [returned |-> TRUE, value |-> value, p |-> 0, match |-> Inf]
Fell(p, m) == [returned |-> FALSE, value |-> 0, p |-> p, match |-> m]

\* quotient = -(-target // p35): ceiling division by floor division
CeilQuotient(t, p35) == -((-t) \div p35)

\* the inner loop  while p35 < target  (lines 187-206)
RECURSIVE InnerLoop(_, _, _)
InnerLoop(t, p35, match) ==
    IF ~(p35 < t) THEN Fell(p35, match)
    ELSE LET quotient == CeilQuotient(t, p35)
             p2 == 2 ^ bit_length(quotient - 1)
             N == p2 * p35
         IN  IF N = t THEN Returned(N)
             ELSE LET match2 == IF Less(N, match) THEN Fin(N) ELSE match
                      p35n == p35 * 3
                  IN  IF p35n = t THEN Returned(p35n)
                      ELSE InnerLoop(t, p35n, match2)

\* the outer loop  while p5 < target  (lines 185-211)
RECURSIVE OuterLoop(_, _, _)
OuterLoop(t, p5, match) ==
    IF ~(p5 < t) THEN Fell(p5, match)
    ELSE LET inner == InnerLoop(t, p5, match)
         IN  IF inner.returned THEN inner
             ELSE LET match2 == IF Less(inner.p, inner.match)
                                THEN Fin(inner.p) ELSE inner.match
                      p5n == p5 * 5
                  IN  IF p5n = t THEN Returned(p5n)
                      ELSE OuterLoop(t, p5n, match2)

\* a variant that rounds the quotient down instead of up
NextRegularSearchFloor(t) ==
    LET RECURSIVE Inner(_, _)
        Inner(p35, best) ==
            IF ~(p35 < t) THEN IF p35 < best THEN p35 ELSE best
            ELSE LET N == (2 ^ bit_length((t \div p35) - 1)) * p35
                 IN  Inner(p35 * 3, IF N < best THEN N ELSE best)
        RECURSIVE Outer(_, _)
        Outer(p5, best) ==
            IF ~(p5 < t) THEN IF p5 < best THEN p5 ELSE best
            ELSE Outer(p5 * 5, Inner(p5, best))
    IN  Outer(1, 4 * t)

\* the search of _next_regular for a target that is neither <= 6 nor a
\* power of two (lines 183-214)
NextRegularSearch(t) ==
    LET outer == OuterLoop(t, 1, Inf)
    IN  IF outer.returned THEN outer.value
        ELSE IF Less(outer.p, outer.match) THEN outer.p ELSE outer.match.n

\* _next_regular(target)
next_regular(t) ==
    IF t <= 6 THEN t
    ELSE IF BitAnd(t, t - 1) = 0 THEN t
    ELSE NextRegularSearch(t)

(***************************************************************************)
(* Regular (5-smooth) numbers, by trial division.                          *)
(***************************************************************************)
RECURSIVE StripFactor(_, _)
StripFactor(n, p) == IF n % p = 0 THEN StripFactor(n \div p, p) ELSE n

IsRegular(n) == n >= 1 /\ StripFactor(StripFactor(StripFactor(n, 2), 3), 5) = 1

(***************************************************************************)
(* The regular-number sizer as a state machine: a caller picks a target    *)
(* and calls _next_regular on it.                                          *)
(***************************************************************************)
Targets == (1 .. MaxTarget) \cup {2 ^ 20}

InitRegular ==
    /\ target \in Targets
    /\ regular = <<>>
    /\ EinsumIdle

CallNextRegular ==
    /\ regular = <<>>
    /\ regular' = <<next_regular(target)>>
    /\ UNCHANGED <<target, einsumVars>>

NextTarget ==
    /\ regular # <<>>
    /\ target' \in Targets
    /\ regular' = <<>>
    /\ UNCHANGED einsumVars

NextRegularStep == CallNextRegular \/ NextTarget

SpecRegular == InitRegular /\ [][NextRegularStep]_vars

\* C1: for every positive target, _next_regular(target) is >= target, has no
\* prime factor other than 2, 3 and 5, and no regular number lies between
\* target and it; 7 -> 8, 11 -> 12, 1 -> 1, 2**20 -> 2**20.
C1_NextRegularIsLeastRegular ==
    regular # <<>> =>
        LET N == regular[1]
        IN  /\ N >= target
            /\ IsRegular(N)
            /\ \A M \in target .. (N - 1) : ~IsRegular(M)
            /\ (target = 7 => N = 8)
            /\ (target = 11 => N = 12)
            /\ (target = 1 => N = 1)
            /\ (target = 2 ^ 20 => N = 2 ^ 20)

\* a target that takes the search (not <= 6, not a power of two) and is
\* rounded up past a non-regular number
C1_Witness == regular = <<12>> /\ target = 11

(***************************************************************************)
(* Tensors.  A tensor is its shape and its entries, one per index tuple;   *)
(* index values are 0-based as in numpy.                                   *)
(***************************************************************************)
Range(s) == {s[i] : i \in 1 .. Len(s)}

RECURSIVE Indices(_)
Indices(shape) ==
    IF shape = <<>> THEN {<<>>}
    ELSE {<<i>> \o rest : i \in 0 .. (Head(shape) - 1), rest \in Indices(Tail(shape))}

Tensor(shape, data) == [shape |-> shape, data |-> data]

\* every tensor of a shape with entries in 0..MaxVal
Tensors(shape) == {Tensor(shape, d) : d \in [Indices(shape) -> 0 .. MaxVal]}

\* A + A' for tensors of equal shape
TensorAdd(A, B) == Tensor(A.shape, [i \in Indices(A.shape) |-> A.data[i] + B.data[i]])

RECURSIVE SumFn(_, _)
SumFn(f, S) ==
    IF S = {} THEN 0
    ELSE LET x == CHOOSE x \in S : TRUE IN f[x] + SumFn(f, S \ {x})

RECURSIVE ProdSeq(_)
ProdSeq(s) == IF s = <<>> THEN 1 ELSE Head(s) * ProdSeq(Tail(s))

(***************************************************************************)
(* Einstein summation over operand tensors ops, their label lists subs and *)
(* the output label list out, for labels of any kind: what numpy.einsum    *)
(* computes in its (op0, sublist0, ..., sublistout) format.                *)
(***************************************************************************)
EinsumLabels(subs) == UNION {Range(subs[k]) : k \in 1 .. Len(subs)}

\* the size of the axis a label names: that of the first operand axis carrying it
LabelDim(ops, subs, lab) ==
    LET k == CHOOSE k \in 1 .. Len(subs) :
                 /\ lab \in Range(subs[k])
                 /\ \A k2 \in 1 .. (k - 1) : lab \notin Range(subs[k2])
        j == CHOOSE j \in 1 .. Len(subs[k]) :
                 /\ subs[k][j] = lab
                 /\ \A j2 \in 1 .. (j - 1) : subs[k][j2] # lab
    IN  ops[k].shape[j]

\* numpy.einsum raises ValueError unless every sublist has its operand's
\* rank, a label names axes of one size, and the output labels are distinct
\* labels of the operands
EinsumValid(ops, subs, out) ==
    /\ Len(ops) >= 1
    /\ \A k \in 1 .. Len(ops) : Len(subs[k]) = Len(ops[k].shape)
    /\ \A k1, k2 \in 1 .. Len(ops) :
         \A j1 \in 1 .. Len(subs[k1]), j2 \in 1 .. Len(subs[k2]) :
            subs[k1][j1] = subs[k2][j2] => ops[k1].shape[j1] = ops[k2].shape[j2]
    /\ Range(out) \subseteq EinsumLabels(subs)
    /\ \A i1, i2 \in 1 .. Len(out) : out[i1] = out[i2] => i1 = i2

EinsumTensor(ops, subs, out) ==
    LET summed == EinsumLabels(subs) \ Range(out)
        dim(l) == LabelDim(ops, subs, l)
        oshape == [i \in 1 .. Len(out) |-> dim(out[i])]
        Sizes == {dim(l) : l \in summed}
        Envs == {e \in [summed -> 0 .. (SumFn([d \in Sizes |-> d], Sizes))] :
                    \A l \in summed : e[l] < dim(l)}
        term(oidx, e) ==
            LET val(l) == IF l \in summed THEN e[l]
                          ELSE oidx[CHOOSE i \in 1 .. Len(out) : out[i] = l]
            IN  ProdSeq([k \in 1 .. Len(ops) |->
                    ops[k].data[[j \in 1 .. Len(subs[k]) |-> val(subs[k][j])]]])
    IN  Tensor(oshape,
               [oidx \in Indices(oshape) |->
                    SumFn([e \in Envs |-> term(oidx, e)], Envs)])

\* what a call hands back: a value, or the exception it raised
Ok(value) == [exc |-> "none", val |-> <<value>>]
Raise(exc) == [exc |-> exc, val |-> <<>>]

\* numpy.einsum called on a = (op0, sublist0, op1, sublist1, ..., sublistout)
np_einsum(a) ==
    LET nops == (Len(a) - 1) \div 2
        ops == [k \in 1 .. nops |-> a[2 * k - 1]]
        subs == [k \in 1 .. nops |-> a[2 * k]]
        out == a[Len(a)]
    IN  IF EinsumValid(ops, subs, out) THEN Ok(EinsumTensor(ops, subs, out))
        ELSE Raise("ValueError")

(***************************************************************************)
(* einsum2  (lines 5-25)                                                  *)
(***************************************************************************)
\* the Python positions of the label lists:
\* zip(*(enum_args[1::2] + [enum_args[-1]]))
idx_argnum(a) == [i \in 1 .. (Len(a) \div 2) |-> 2 * i - 1] \o <<Len(a) - 1>>

\* set(sum(idx_lists, []))
idx_set(a) == UNION {Range(a[p + 1]) : p \in Range(idx_argnum(a))}

\* a non-injective numbering: every function of the labels into 0..k-1
IdxToIntAny(labels) == [labels -> 0 .. (Cardinality(labels) - 1)]

\* {idx: i for i,idx in enumerate(set(...))}: the iteration order of a set
\* is not fixed, so any numbering of the labels by 0..k-1 can come out
IdxToIntChoices(labels) ==
    {m \in [labels -> 0 .. (Cardinality(labels) - 1)] :
        \A l1, l2 \in labels : m[l1] = m[l2] => l1 = l2}

\* the record of a call of einsum2: the exception raised ("none" if it
\* returned), the numbering built, the argument list handed to numpy.einsum
\* (<<>> if it was not invoked), how often it was invoked, and the result
Einsum2Call(exc, m, np_args, np_calls, ans) ==
    [fn |-> "einsum2", exc |-> exc, idx_to_int |-> m, np_args |-> np_args,
     np_calls |-> np_calls, ans |-> ans]

\* the local list args once every label list is rewritten (lines 16-23)
RewrittenArgs(a, m) ==
    [p \in 1 .. Len(a) |->
        IF (p - 1) \in Range(idx_argnum(a))
        THEN [j \in 1 .. Len(a[p]) |-> m[a[p][j]]]
        ELSE a[p]]

\* einsum2 with the assertion placed after the evaluation
einsum2_LateAssert(a, m) ==
    IF Len(a) % 2 # 1 THEN Einsum2Call("AssertionError", <<>>, a, 1, <<>>)
    ELSE LET r == np_einsum(RewrittenArgs(a, m))
         IN  Einsum2Call(r.exc, m, RewrittenArgs(a, m), 1, r.val)

\* einsum2 that hands operand 0 to the evaluator in the place of every
\* operand of its shape
einsum2_Operand0(a, m) ==
    IF Len(a) % 2 # 1 THEN Einsum2Call("AssertionError", <<>>, <<>>, 0, <<>>)
    ELSE LET local == [p \in 1 .. Len(a) |->
                         IF (p - 1) \in Range(idx_argnum(a))
                         THEN RewrittenArgs(a, m)[p]
                         ELSE IF a[p].shape = a[1].shape THEN a[1] ELSE a[p]]
             r == np_einsum(local)
         IN  Einsum2Call(r.exc, m, local, 1, r.val)

\* einsum2 called on a, with m the numbering that enumerate(set(...)) produced
einsum2(a, m) ==
    IF Len(a) % 2 # 1 THEN Einsum2Call("AssertionError", <<>>, <<>>, 0, <<>>)
    ELSE LET r == np_einsum(RewrittenArgs(a, m))
         IN  Einsum2Call(r.exc, m, RewrittenArgs(a, m), 1, r.val)

\* the numberings a call can build (none is built when the assertion fails)
Numberings(a) ==
    IF Len(a) % 2 # 1 \/ Len(a) = 0 THEN {<<>>} ELSE IdxToIntChoices(idx_set(a))

(***************************************************************************)
(* The calls of einsum2 of the model: label lists over "a", "b", "c",      *)
(* whose axes have the sizes LabelSize, with every tensor of those shapes. *)
(***************************************************************************)
LabelSize == [a |-> 2, b |-> 2, c |-> 1]
ShapeOf(labels) == [j \in 1 .. Len(labels) |-> LabelSize[labels[j]]]

\* (labels of operand 0, labels of operand 1, output labels)
TwoOperandPatterns ==
    { <<<<"a", "b">>, <<"b", "c">>, <<"a", "c">>>>,   \* matrix product
      <<<<"a">>, <<"b">>, <<"a", "b">>>>,             \* outer product
      <<<<"a">>, <<"a">>, <<>>>>,                     \* inner product
      <<<<"a", "b">>, <<"b">>, <<"a">>>>,             \* matrix-vector
      <<<<"a", "a">>, <<"a">>, <<"a">>>>,             \* a diagonal
      <<<<"a", "b">>, <<"c">>, <<"b", "a">>>>,        \* transposition
      <<<<"a", "b">>, <<>>, <<"b">>>>,                \* "a" summed out of operand 0 alone
      <<<<"a">>, <<"b">>, <<"c">>>> }                 \* output label of no operand

\* a is a call with two operands of a pattern, or with one operand
ValidCall(a) ==
    \/ \E p \in TwoOperandPatterns :
         \E A \in Tensors(ShapeOf(p[1])), B \in Tensors(ShapeOf(p[2])) :
            a = <<A, p[1], B, p[2], p[3]>>
    \/ \E A \in Tensors(ShapeOf(<<"a", "c">>)) : a = <<A, <<"a", "c">>, <<"c", "a">>>>

\* a is a call with an even number of arguments
EvenCall(a) ==
    \/ a = <<>>
    \/ \E A \in Tensors(ShapeOf(<<"a">>)) : a = <<A, <<"a">>>>
    \/ \E A \in Tensors(ShapeOf(<<"a">>)), B \in Tensors(ShapeOf(<<"b">>)) :
            a = <<A, <<"a">>, B, <<"b">>>>

InitEinsum ==
    /\ RegularIdle
    /\ ValidCall(args) \/ EvenCall(args)
    /\ call = NoCall

CallEinsum2 ==
    /\ call.fn = "none"
    /\ \E m \in Numberings(args) : call' = einsum2(args, m)
    /\ UNCHANGED <<args, regularVars>>

\* Python's a[i] on a sequence of length n raises IndexError unless -n <= i < n
IndexInRange(i, n) == -n <= i /\ i < n

\* the record of a call of make_einsum_grad: the exception raised ("none"
\* if it returned the function grad), the argument list grad_args that grad
\* closes over (<<>> if there is none), and ans, the result of the forward call
GradMakerCall(argnum, exc, grad_args, ans) ==
    [fn |-> "make_einsum_grad", argnum |-> argnum, exc |-> exc,
     grad_args |-> grad_args, ans |-> ans]

\* make_einsum_grad without the test of the parity of argnum
make_einsum_grad_NoParityTest(argnum, ans, a) ==
    IF ~IndexInRange(argnum + 1, Len(a)) \/ Len(a) = 0
    THEN GradMakerCall(argnum, "IndexError", <<>>, ans)
    ELSE GradMakerCall(argnum, "none",
            [[a EXCEPT ![Len(a)] = a[argnum + 2]] EXCEPT ![argnum + 2] = a[Len(a)]],
            ans)

\* make_einsum_grad(argnum, ans, *args)  (lines 26-39): the two assignments
\* read args[argnum+1] and args[-1], then write grad_args[-1] and
\* grad_args[argnum+1]
make_einsum_grad(argnum, ans, a) ==
    IF argnum % 2 = 1 THEN GradMakerCall(argnum, "Exception", <<>>, ans)
    ELSE IF ~IndexInRange(argnum + 1, Len(a)) \/ Len(a) = 0
    THEN GradMakerCall(argnum, "IndexError", <<>>, ans)
    ELSE GradMakerCall(argnum, "none",
            [[a EXCEPT ![Len(a)] = a[argnum + 2]] EXCEPT ![argnum + 2] = a[Len(a)]],
            ans)

\* after a forward call returned, the differentiation driver asks for the
\* gradient function of an argument position
MakeEinsumGrad ==
    /\ call.fn = "einsum2"
    /\ call.exc = "none"
    /\ \E argnum \in 0 .. Len(args) :
         call' = make_einsum_grad(argnum, call.ans[1], args)
    /\ UNCHANGED <<args, regularVars>>

NextEinsum == CallEinsum2 \/ MakeEinsumGrad

SpecEinsum == InitEinsum /\ [][NextEinsum]_vars

\* the label lists of a call with an odd number of arguments: the lists
\* that follow each operand and the trailing output list
IsLabelPosition(a, p) == p % 2 = 1 \/ p = Len(a) - 1
LabelsOfCall(a) ==
    UNION {Range(a[p + 1]) : p \in {q \in 0 .. (Len(a) - 1) : IsLabelPosition(a, q)}}

\* C4: einsum2 numbers the distinct labels of all label lists of the call
\* injectively by 0..k-1, rewrites every label list and no tensor with that
\* numbering, and its outcome is the Einstein summation over the labels
\* themselves, whichever numbering was chosen.
C4_EinsumNumbering ==
    (call.fn = "einsum2" /\ Len(args) % 2 = 1) =>
        LET m == call.idx_to_int
            labs == LabelsOfCall(args)
            n == Len(args)
        IN  /\ DOMAIN m = labs
            /\ {m[l] : l \in labs} = 0 .. (Cardinality(labs) - 1)
            /\ \A l1, l2 \in labs : m[l1] = m[l2] => l1 = l2
            /\ call.np_calls = 1
            /\ Len(call.np_args) = n
            /\ \A p \in 0 .. (n - 1) :
                 IF IsLabelPosition(args, p)
                 THEN call.np_args[p + 1] =
                        [j \in 1 .. Len(args[p + 1]) |-> m[args[p + 1][j]]]
                 ELSE call.np_args[p + 1] = args[p + 1]
            /\ call.exc = np_einsum(args).exc
            /\ call.ans = np_einsum(args).val

\* a matrix product whose three labels were numbered against their order
C4_Witness ==
    /\ call.fn = "einsum2"
    /\ Len(args) = 5
    /\ args[5] = <<"a", "c">>
    /\ call.exc = "none"
    /\ call.idx_to_int["a"] = 2
    /\ call.idx_to_int["b"] = 0
    /\ call.ans[1].data[<<1, 0>>] = 2

\* args with the operand at Python position k replaced by the tensor A
WithOperand(a, k, A) == [a EXCEPT ![k + 1] = A]

\* a caller evaluates one contraction on an operand A, on another tensor A2
\* of its shape, and on A + A2.  The three calls have the same label lists,
\* so their sets of labels are built alike and enumerate in the same order.
CallEinsum2Thrice ==
    /\ call.fn = "none"
    /\ \E k \in {0, 2}, m \in Numberings(args) :
         \E A2 \in Tensors(args[k + 1].shape) :
            call' = [fn |-> "einsum2 x3", argnum |-> k, other |-> A2,
                     first |-> einsum2(args, m),
                     second |-> einsum2(WithOperand(args, k, A2), m),
                     both |-> einsum2(WithOperand(args, k,
                                          TensorAdd(args[k + 1], A2)), m)]
    /\ UNCHANGED <<args, regularVars>>

\* the two-operand calls whose linearity is examined
LinearPatterns ==
    { <<<<"a">>, <<"a">>, <<>>>>,                     \* inner product
      <<<<"a">>, <<"b">>, <<"a", "b">>>>,             \* outer product
      <<<<"a", "b">>, <<"b">>, <<"a">>>>,             \* matrix-vector
      <<<<"a", "a">>, <<"a">>, <<"a">>>>,             \* a diagonal
      <<<<"a", "c">>, <<>>, <<"c">>>>,                \* "a" summed out of operand 0 alone
      <<<<"a">>, <<"b">>, <<"c">>>> }                 \* output label of no operand

InitLinear ==
    /\ RegularIdle
    /\ \E p \in LinearPatterns :
         \E A \in Tensors(ShapeOf(p[1])), B \in Tensors(ShapeOf(p[2])) :
            args = <<A, p[1], B, p[2], p[3]>>
    /\ call = NoCall

SpecLinear == InitLinear /\ [][CallEinsum2Thrice]_vars

\* C5: einsum2 is linear in each tensor operand: the contraction of A + A2
\* is the sum of the contractions of A and of A2, the other arguments equal.
C5_EinsumLinear ==
    call.fn = "einsum2 x3" =>
        /\ call.first.exc = np_einsum(args).exc
        /\ call.second.exc = call.first.exc
        /\ call.both.exc = call.first.exc
        /\ call.first.exc = "none" =>
             call.both.ans[1] = TensorAdd(call.first.ans[1], call.second.ans[1])

\* a matrix-vector product, linear in its second operand, with a nonzero
\* entry from each of the two summands
C5_Witness ==
    /\ call.fn = "einsum2 x3"
    /\ call.argnum = 2
    /\ args[5] = <<"a">>
    /\ call.first.ans[1].data[<<0>>] = 1
    /\ call.second.ans[1].data[<<0>>] = 1
    /\ call.both.ans[1].data[<<0>>] = 2

\* C10: einsum2 called with an even number of arguments fails with an
\* assertion error before any label is rewritten and before the summation
\* evaluator is invoked.
C10_EvenArgumentsAssert ==
    (call.fn = "einsum2" /\ Len(args) % 2 = 0) =>
        /\ call.exc = "AssertionError"
        /\ call.np_calls = 0
        /\ call.np_args = <<>>
        /\ call.idx_to_int = <<>>
        /\ call.ans = <<>>

\* two operands with their label lists and no output label list
C10_Witness ==
    /\ call.fn = "einsum2"
    /\ Len(args) = 4
    /\ call.exc = "AssertionError"

\* C8: asking for the gradient of einsum2 with respect to a label list fails
\* instead of returning a gradient function: make_einsum_grad raises for every
\* odd argnum and for the argnum of the trailing output label list.
C8_NoGradientOfLabelList ==
    (call.fn = "make_einsum_grad" /\ IsLabelPosition(args, call.argnum)) =>
        /\ call.exc # "none"
        /\ call.grad_args = <<>>

\* the gradient with respect to the trailing output label list of a
\* two-operand call: an even argnum, refused by the read of args[argnum+1]
C8_Witness ==
    /\ call.fn = "make_einsum_grad"
    /\ Len(args) = 5
    /\ call.argnum = 4
    /\ call.exc = "IndexError"

(***************************************************************************)
(* swapaxes, trace and sum_antidiagonals  (lines 42-75)                    *)
(***************************************************************************)
\* the sequence s with the elements at Python positions i and j exchanged
SwapAt(s, i, j) == [s EXCEPT ![i + 1] = s[j + 1], ![j + 1] = s[i + 1]]

\* np.swapaxes(a, axis1, axis2)
swapaxes(a, axis1, axis2) ==
    Tensor(SwapAt(a.shape, axis1, axis2),
           [idx \in Indices(SwapAt(a.shape, axis1, axis2)) |->
                a.data[SwapAt(idx, axis1, axis2)]])

\* a[::-1, ...]: the first axis reversed
ReverseFirstAxis(a) ==
    Tensor(a.shape,
           [idx \in Indices(a.shape) |->
                a.data[[idx EXCEPT ![1] = a.shape[1] - 1 - idx[1]]]])

\* np.trace(a, offset): the sum of a[i, i+offset, ...] over the two leading axes
trace(a, offset) ==
    LET rest == SubSeq(a.shape, 3, Len(a.shape))
        diag == {i \in 0 .. (a.shape[1] - 1) :
                    0 <= i + offset /\ i + offset < a.shape[2]}
    IN  Tensor(rest,
               [idx \in Indices(rest) |->
                    SumFn([i \in diag |-> a.data[<<i, i + offset>> \o idx]], diag)])

\* np.array([t_0, t_1, ...]) of tensors of one shape: stacked along a new first axis
StackTensors(ts) ==
    LET shape == <<Len(ts)>> \o ts[1].shape
    IN  Tensor(shape, [idx \in Indices(shape) |-> ts[idx[1] + 1].data[Tail(idx)]])

\* list.index(x): the Python position of the first x
ListIndex(s, x) == (CHOOSE i \in 1 .. Len(s) :
                        s[i] = x /\ \A j \in 1 .. (i - 1) : s[j] # x) - 1

\* the record of a call of sum_antidiagonals: the exception raised ("none"
\* if it returned), and the returned pair ret, labels
AntidiagCall(exc, ret, labels) ==
    [fn |-> "sum_antidiagonals", exc |-> exc, ret |-> ret, labels |-> labels]

\* sum_antidiagonals(arr, labels, axis0, axis1, new_axis)
sum_antidiagonals(arr, labels, axis0, axis1, new_axis) ==
    IF axis0 = axis1 THEN AntidiagCall("AssertionError", <<>>, <<>>)
    ELSE IF axis0 \notin Range(labels) \/ axis1 \notin Range(labels)
    THEN AntidiagCall("ValueError", <<>>, <<>>)
    ELSE LET idx0 == ListIndex(labels, axis0)
             idx1 == ListIndex(labels, axis1)
             swapped == ReverseFirstAxis(swapaxes(swapaxes(arr, idx0, 0), idx1, 1))
             offsets == [m \in 1 .. (swapped.shape[1] + swapped.shape[2] - 1) |->
                            m - swapped.shape[1]]
             ret == StackTensors([m \in 1 .. Len(offsets) |-> trace(swapped, offsets[m])])
             labels2 == SwapAt(SwapAt(labels, 0, idx0), 1, idx1)
         IN  AntidiagCall("none", <<ret>>,
                          <<new_axis>> \o SubSeq(labels2, 3, Len(labels2)))

(***************************************************************************)
(* The calls of sum_antidiagonals of the model: a tensor whose axes are    *)
(* labelled by two to four distinct labels among "x", "y", "z", "w", of    *)
(* the sizes AxisSize, and any two of the four labels as axis0 and axis1.  *)
(***************************************************************************)
AxisLabels == {"x", "y", "z", "w"}
AxisSize == [x |-> 2, y |-> 2, z |-> 1, w |-> 1]
AxisShape(labels) == [j \in 1 .. Len(labels) |-> AxisSize[labels[j]]]

LabelLists ==
    UNION {{l \in [1 .. n -> AxisLabels] :
                \A i, j \in 1 .. n : l[i] = l[j] => i = j} : n \in 2 .. 4}

InitAntidiag ==
    /\ RegularIdle
    /\ \E l \in LabelLists, axis0 \in AxisLabels, axis1 \in AxisLabels :
         \E arr \in Tensors(AxisShape(l)) :
            args = <<arr, l, axis0, axis1, "n">>
    /\ call = NoCall

CallSumAntidiagonals ==
    /\ call.fn = "none"
    /\ call' = sum_antidiagonals(args[1], args[2], args[3], args[4], args[5])
    /\ UNCHANGED <<args, regularVars>>

SpecAntidiag == InitAntidiag /\ [][CallSumAntidiagonals]_vars

\* the labels of a list other than axis0 and axis1, in the order of the list
OtherLabels(labels, axis0, axis1) ==
    LET keep(l) == l # axis0 /\ l # axis1 IN SelectSeq(labels, keep)

\* C6: for axis0 and axis1 at any two distinct positions of labels, the
\* returned label list starts with new_axis, contains neither axis0 nor
\* axis1, continues with exactly the other input labels in their original
\* relative order, and has len(labels) - 1 entries, the rank of the returned
\* tensor.
C6_AntidiagLabels ==
    (call.fn = "sum_antidiagonals" /\ call.exc = "none") =>
        LET labels == args[2]
            rest == Tail(call.labels)
        IN  /\ call.labels[1] = args[5]
            /\ args[3] \notin Range(rest)
            /\ args[4] \notin Range(rest)
            /\ rest = OtherLabels(labels, args[3], args[4])
            /\ Len(call.labels) = Len(labels) - 1
            /\ Len(call.labels) = Len(call.ret[1].shape)

\* C7: sum_antidiagonals collapses exactly the two named axes wherever they
\* are in labels: the first returned axis has length d0 + d1 - 1, the entry
\* at index m along it is the sum of the input entries whose indices along
\* axis0 and axis1 add up to m (the other indices fixed), and every other
\* returned label names the input axis it named before.
C7_AntidiagSums ==
    (call.fn = "sum_antidiagonals" /\ call.exc = "none") =>
        LET arr == args[1]
            labels == args[2]
            p0 == ListIndex(labels, args[3]) + 1
            p1 == ListIndex(labels, args[4]) + 1
            ret == call.ret[1]
            rl == call.labels
            \* the input axis that the returned label at position t named
            axisOf(t) == ListIndex(labels, rl[t]) + 1
        IN  /\ ret.shape[1] = arr.shape[p0] + arr.shape[p1] - 1
            /\ \A t \in 2 .. Len(rl) :
                 /\ rl[t] \in Range(labels)
                 /\ ret.shape[t] = arr.shape[axisOf(t)]
            /\ \A idx \in Indices(ret.shape) :
                 LET cell == {in \in Indices(arr.shape) :
                                /\ in[p0] + in[p1] = idx[1]
                                /\ \A t \in 2 .. Len(rl) : in[axisOf(t)] = idx[t]}
                 IN  ret.data[idx] = SumFn([in \in cell |-> arr.data[in]], cell)

(***************************************************************************)
(* fftn and fft_einsum  (lines 133-158).                                   *)
(*                                                                         *)
(* The discrete Fourier transform itself is numpy's.  The model keeps a    *)
(* transform as the tensor it is the transform of, and uses the            *)
(* convolution theorem for what fft_einsum does with two transforms: the   *)
(* product of two transforms of length N along an axis that is kept in the *)
(* output, transformed back, is the circular convolution of length N along *)
(* that axis.                                                              *)
(***************************************************************************)
Min(a, b) == IF a < b THEN a ELSE b

\* the place i of the Python position p in the sequence axes, 0 if absent
PlaceOf(axes, p) ==
    IF \E i \in 1 .. Len(axes) : axes[i] = p
    THEN CHOOSE i \in 1 .. Len(axes) : axes[i] = p
    ELSE 0

\* the zero-padding or truncation of x to the length s[i] along the axis
\* axes[i], as np.fft.fftn(x, s, axes) does before it transforms
PadTo(x, s, axes) ==
    LET shape == [j \in 1 .. Len(x.shape) |->
                    IF PlaceOf(axes, j - 1) # 0 THEN s[PlaceOf(axes, j - 1)]
                    ELSE x.shape[j]]
    IN  Tensor(shape,
               [idx \in Indices(shape) |->
                    IF \A j \in 1 .. Len(shape) : idx[j] < x.shape[j]
                    THEN x.data[idx] ELSE 0])

\* x[out_slice]: the first s[i] entries along the axis axes[i]
SliceTo(x, s, axes) ==
    LET shape == [j \in 1 .. Len(x.shape) |->
                    IF PlaceOf(axes, j - 1) # 0
                    THEN Min(s[PlaceOf(axes, j - 1)], x.shape[j])
                    ELSE x.shape[j]]
    IN  Tensor(shape, [idx \in Indices(shape) |-> x.data[idx]])

\* fftn(x, s, axes): the transform along axes of x padded to s
fftn(x, s, axes) == [of |-> PadTo(x, s, axes), s |-> s, axes |-> axes]

\* x shifted circularly by sh[i] along the axis axes[i]
Roll(x, axes, sh) ==
    Tensor(x.shape,
           [idx \in Indices(x.shape) |->
                x.data[[j \in 1 .. Len(idx) |->
                          IF PlaceOf(axes, j - 1) # 0
                          THEN (idx[j] - sh[PlaceOf(axes, j - 1)]) % x.shape[j]
                          ELSE idx[j]]]])

\* the sequence s without its elements at the Python positions in axes
DropAxes(s, axes) ==
    LET kept == {j \in 1 .. Len(s) : PlaceOf(axes, j - 1) = 0}
        nth(t) == CHOOSE j \in kept : Cardinality({j2 \in kept : j2 < j}) = t - 1
    IN  [t \in 1 .. Cardinality(kept) |-> s[nth(t)]]

\* x at the index sh[i] along the axis axes[i], without those axes
TakeAt(x, axes, sh) ==
    LET kept == {j \in 1 .. Len(x.shape) : PlaceOf(axes, j - 1) = 0}
        shape == DropAxes(x.shape, axes)
    IN  Tensor(shape,
               [idx \in Indices(shape) |->
                    x.data[[j \in 1 .. Len(x.shape) |->
                              IF PlaceOf(axes, j - 1) # 0 THEN sh[PlaceOf(axes, j - 1)]
                              ELSE idx[Cardinality({j2 \in kept : j2 <= j})]]]])

RECURSIVE SumTensors(_, _, _)
SumTensors(f, S, zero) ==
    IF S = {} THEN zero
    ELSE LET x == CHOOSE x \in S : TRUE
         IN  TensorAdd(f[x], SumTensors(f, S \ {x}, zero))

\* np.fft.ifftn(einsum2(F1, labels1, F2, labels2, out_labels), axes) for the
\* transforms F1, F2 of fftn: the contraction of the padded operands in
\* which the spectral axes are convolved circularly, summed shift by shift
SpectralEinsum(F1, labels1, F2, labels2, out_labels, m) ==
    LET direct == einsum2(<<F1.of, labels1, F2.of, labels2, out_labels>>, m)
        Shifts == {sh \in [1 .. Len(F1.s) -> 0 .. SumFn([i \in 1 .. Len(F1.s) |-> F1.s[i]],
                                                       1 .. Len(F1.s))] :
                      \A i \in 1 .. Len(F1.s) : sh[i] < F1.s[i]}
        part(sh) == einsum2(<<Roll(F1.of, F1.axes, sh), labels1,
                              TakeAt(F2.of, F2.axes, sh), DropAxes(labels2, F2.axes),
                              out_labels>>, m).ans[1]
        zero == Tensor(direct.ans[1].shape,
                       [idx \in Indices(direct.ans[1].shape) |-> 0])
    IN  IF direct.exc # "none" THEN Raise(direct.exc)
        ELSE Ok(SumTensors([sh \in Shifts |-> part(sh)], Shifts, zero))

\* the record of a call of fft_einsum: the exception raised ("none" if it
\* returned), fft_idx, fft_shapes, the arguments s and axes of the two calls
\* of fftn, and the result
FftCall(exc, fft_idx, fft_shapes, fftn1, fftn2, ans) ==
    [fn |-> "fft_einsum", exc |-> exc, fft_idx |-> fft_idx,
     fft_shapes |-> fft_shapes, fftn1 |-> fftn1, fftn2 |-> fftn2, ans |-> ans]

NoFftn == [s |-> <<>>, axes |-> <<>>]

\* fft_shapes taken as the size of the longer operand
FftShapes_LongerOperand(in1, in2, idx1, idx2) ==
    [i \in 1 .. Len(idx1) |->
        IF in1.shape[idx1[i] + 1] >= in2.shape[idx2[i] + 1]
        THEN in1.shape[idx1[i] + 1] ELSE in2.shape[idx2[i] + 1]]

\* fft_shapes (line 141)
FftShapes(in1, in2, idx1, idx2) ==
    [i \in 1 .. Len(idx1) |-> in1.shape[idx1[i] + 1] + in2.shape[idx2[i] + 1] - 1]

\* fshape (line 142)
Fshape(fft_shapes) == [i \in 1 .. Len(fft_shapes) |-> next_regular(fft_shapes[i])]

\* fft_einsum(in1, labels1, in2, labels2, out_labels, fft_labels), with m the
\* numbering that its call of einsum2 builds
fft_einsum(in1, labels1, in2, labels2, out_labels, fft_labels, m) ==
    IF ~(\A i \in 1 .. Len(fft_labels) :
            fft_labels[i] \in Range(labels1) /\ fft_labels[i] \in Range(labels2))
    THEN FftCall("AssertionError", <<>>, <<>>, NoFftn, NoFftn, <<>>)
    ELSE IF ~(\A i \in 1 .. Len(fft_labels) : fft_labels[i] \in Range(out_labels))
    THEN FftCall("ValueError", <<>>, <<>>, NoFftn, NoFftn, <<>>)
    ELSE LET fft_idx == [lab \in 1 .. 3 |->
                            [i \in 1 .. Len(fft_labels) |->
                                ListIndex(<<out_labels, labels1, labels2>>[lab],
                                          fft_labels[i])]]
             fft_shapes == FftShapes(in1, in2, fft_idx[2], fft_idx[3])
             fshape == Fshape(fft_shapes)
             F1 == fftn(in1, fshape, fft_idx[2])
             F2 == fftn(in2, fshape, fft_idx[3])
             ret == SpectralEinsum(F1, labels1, F2, labels2, out_labels, m)
         IN  IF ret.exc # "none"
             THEN FftCall(ret.exc, fft_idx, fft_shapes,
                          [s |-> F1.s, axes |-> F1.axes], [s |-> F2.s, axes |-> F2.axes],
                          <<>>)
             ELSE FftCall("none", fft_idx, fft_shapes,
                          [s |-> F1.s, axes |-> F1.axes], [s |-> F2.s, axes |-> F2.axes],
                          <<SliceTo(ret.val[1], fft_shapes, fft_idx[1])>>)

(***************************************************************************)
(* The calls of fft_einsum of the model.                                   *)
(***************************************************************************)
\* the vectors of length d with a single entry 1, and the vector of ones
Impulses(d) ==
    {Tensor(<<d>>, [idx \in Indices(<<d>>) |-> IF idx[1] = k THEN 1 ELSE 0]) :
        k \in 0 .. (d - 1)}
Ones(d) == Tensor(<<d>>, [idx \in Indices(<<d>>) |-> 1])

\* one-dimensional convolutions: every vector of a length 1..MaxDim with the
\* impulses and the vector of ones of a length 1..MaxDim
ConvolutionCall(a) ==
    \E d1 \in 1 .. MaxDim, d2 \in 1 .. MaxDim :
        \E in1 \in Tensors(<<d1>>), in2 \in Impulses(d2) \cup {Ones(d2)} :
            a = <<in1, <<"a">>, in2, <<"a">>, <<"a">>, <<"a">>>>

\* [1,2,3] convolved with [0,1,0.5], the second operand scaled by 2
ExampleCall ==
    << Tensor(<<3>>, [idx \in Indices(<<3>>) |-> idx[1] + 1]), <<"a">>,
       Tensor(<<3>>, [idx \in Indices(<<3>>) |-> <<0, 2, 1>>[idx[1] + 1]]), <<"a">>,
       <<"a">>, <<"a">> >>

\* (shape of in1, labels1, shape of in2, labels2, out_labels, fft_labels)
FftPatterns ==
    { \* convolution along "a", "b" kept
      <<<<2, 2>>, <<"a", "b">>, <<2>>, <<"a">>, <<"a", "b">>, <<"a">>>>,
      \* convolution along "a" at different positions, "b" summed
      <<<<2, 2>>, <<"b", "a">>, <<1, 2>>, <<"a", "b">>, <<"a">>, <<"a">>>>,
      \* convolution along "a" and "b"
      <<<<2, 1>>, <<"a", "b">>, <<2, 2>>, <<"b", "a">>, <<"b", "a">>, <<"a", "b">>>>,
      \* spectral label absent from out_labels
      <<<<2>>, <<"a">>, <<2>>, <<"a">>, <<>>, <<"a">>>>,
      <<<<2, 2>>, <<"a", "b">>, <<1>>, <<"a">>, <<"b">>, <<"a">>>>,
      \* spectral label absent from labels2
      <<<<2>>, <<"a">>, <<2>>, <<"b">>, <<"a">>, <<"a">>>>,
      \* output label of no operand
      <<<<2>>, <<"a">>, <<2>>, <<"a">>, <<"a", "c">>, <<"a">>>> }

InitFft ==
    /\ RegularIdle
    /\ \/ ConvolutionCall(args)
       \/ args = ExampleCall
       \/ \E p \in FftPatterns :
            \E in1 \in Tensors(p[1]), in2 \in Tensors(p[3]) :
                args = <<in1, p[2], in2, p[4], p[5], p[6]>>
    /\ call = NoCall

CallFftEinsum ==
    /\ call.fn = "none"
    /\ \E m \in IdxToIntChoices(Range(args[2]) \cup Range(args[4]) \cup Range(args[5])) :
         call' = fft_einsum(args[1], args[2], args[3], args[4], args[5], args[6], m)
    /\ UNCHANGED <<args, regularVars>>

SpecFft == InitFft /\ [][CallFftEinsum]_vars

\* the spectral labels are in both input label lists
SpectralInInputs(a) ==
    \A i \in 1 .. Len(a[6]) : a[6][i] \in Range(a[2]) /\ a[6][i] \in Range(a[4])

\* the spectral labels are in the output label list
SpectralInOutput(a) == \A i \in 1 .. Len(a[6]) : a[6][i] \in Range(a[5])

\* the output labels are distinct labels of the operands, and a label that
\* is not spectral names axes of one size
OrdinaryLabelsValid(a) ==
    LET ops == <<a[1], a[3]>>
        subs == <<a[2], a[4]>>
    IN  /\ Range(a[5]) \subseteq Range(a[2]) \cup Range(a[4])
        /\ \A t1, t2 \in 1 .. Len(a[5]) : a[5][t1] = a[5][t2] => t1 = t2
        /\ \A k1, k2 \in 1 .. 2 :
             \A j1 \in 1 .. Len(subs[k1]), j2 \in 1 .. Len(subs[k2]) :
                (subs[k1][j1] = subs[k2][j2] /\ subs[k1][j1] \notin Range(a[6]))
                    => ops[k1].shape[j1] = ops[k2].shape[j2]

\* the contraction by nested summation: the sum of in1[i1] * in2[i2] over
\* the index pairs that agree on every label that is not spectral, give the
\* output index along every such output label, and whose indices along each
\* spectral label add up to the output index
LinearConvolution(in1, labels1, in2, labels2, out_labels, fft_labels) ==
    LET spectral == Range(fft_labels)
        p1(l) == ListIndex(labels1, l) + 1
        p2(l) == ListIndex(labels2, l) + 1
        size(l) == IF l \in spectral THEN in1.shape[p1(l)] + in2.shape[p2(l)] - 1
                   ELSE IF l \in Range(labels1) THEN in1.shape[p1(l)]
                   ELSE in2.shape[p2(l)]
        oshape == [t \in 1 .. Len(out_labels) |-> size(out_labels[t])]
        agree(i1, i2, oidx) ==
            /\ \A j, j2 \in 1 .. Len(labels1) : labels1[j] = labels1[j2] => i1[j] = i1[j2]
            /\ \A j, j2 \in 1 .. Len(labels2) : labels2[j] = labels2[j2] => i2[j] = i2[j2]
            /\ \A j \in 1 .. Len(labels1), j2 \in 1 .. Len(labels2) :
                 (labels1[j] = labels2[j2] /\ labels1[j] \notin spectral) => i1[j] = i2[j2]
            /\ \A t \in 1 .. Len(out_labels) :
                 IF out_labels[t] \in spectral
                 THEN i1[p1(out_labels[t])] + i2[p2(out_labels[t])] = oidx[t]
                 ELSE /\ \A j \in 1 .. Len(labels1) :
                           labels1[j] = out_labels[t] => i1[j] = oidx[t]
                      /\ \A j \in 1 .. Len(labels2) :
                           labels2[j] = out_labels[t] => i2[j] = oidx[t]
        pairs(oidx) == {pr \in Indices(in1.shape) \X Indices(in2.shape) :
                            agree(pr[1], pr[2], oidx)}
    IN  Tensor(oshape,
               [oidx \in Indices(oshape) |->
                    SumFn([pr \in pairs(oidx) |-> in1.data[pr[1]] * in2.data[pr[2]]],
                          pairs(oidx))])

\* the result of a call is the contraction by nested summation, each
\* spectral output axis of the length (size in in1) + (size in in2) - 1, and
\* [1,2,3] convolved with [0,1,0.5] is [0,1,2.5,4,1.5] (both sides doubled)
ReturnsLinearConvolution ==
    /\ call.exc = "none"
    /\ call.ans[1] = LinearConvolution(args[1], args[2], args[3], args[4],
                                       args[5], args[6])
    /\ \A i \in 1 .. Len(args[6]) :
         args[6][i] \in Range(args[5]) =>
            call.ans[1].shape[ListIndex(args[5], args[6][i]) + 1] =
                args[1].shape[ListIndex(args[2], args[6][i]) + 1]
                + args[3].shape[ListIndex(args[4], args[6][i]) + 1] - 1
    /\ args = ExampleCall =>
         call.ans[1].data = [idx \in Indices(<<5>>) |-> <<0, 2, 5, 8, 3>>[idx[1] + 1]]

\* C2: for operands whose label lists both contain every spectral label,
\* fft_einsum returns the contraction in which each spectral label is a
\* linear convolution and every other label follows einsum2; each spectral
\* output axis has the length (size in in1) + (size in in2) - 1; [1,2,3]
\* convolved with [0,1,0.5] is [0,1,2.5,4,1.5].
C2_FftEinsumIsLinearConvolution ==
    (call.fn = "fft_einsum" /\ SpectralInInputs(args) /\ OrdinaryLabelsValid(args)) =>
        ReturnsLinearConvolution

\* the same for the calls whose spectral labels are all in out_labels
ConvolvesKeptLabels ==
    (/\ call.fn = "fft_einsum"
     /\ SpectralInInputs(args) /\ SpectralInOutput(args) /\ OrdinaryLabelsValid(args)) =>
        ReturnsLinearConvolution

\* two operands of length 4: the transform has length 8, the result length 7,
\* with an entry that sums several products and a nonzero last entry
ConvolvesKeptLabels_Witness ==
    /\ call.fn = "fft_einsum"
    /\ call.exc = "none"
    /\ args[1].shape = <<4>>
    /\ args[3].shape = <<4>>
    /\ call.fftn1.s = <<8>>
    /\ call.ans[1].shape = <<7>>
    /\ call.ans[1].data[<<3>>] = 4
    /\ call.ans[1].data[<<6>>] = 1

\* C3: in every call of fft_einsum, the transform length of each spectral
\* label is the same regular number for both operands and is at least
\* (size in in1) + (size in in2) - 1, so that no two entries of the operands
\* wrap around into the first size1 + size2 - 1 positions.
C3_TransformLengths ==
    (call.fn = "fft_einsum" /\ call.fftn1.s # <<>>) =>
        /\ Len(call.fftn1.s) = Len(args[6])
        /\ call.fftn2.s = call.fftn1.s
        /\ \A i \in 1 .. Len(args[6]) :
             LET N == call.fftn1.s[i]
                 d1 == args[1].shape[ListIndex(args[2], args[6][i]) + 1]
                 d2 == args[3].shape[ListIndex(args[4], args[6][i]) + 1]
             IN  /\ call.fftn1.axes[i] = ListIndex(args[2], args[6][i])
                 /\ call.fftn2.axes[i] = ListIndex(args[4], args[6][i])
                 /\ IsRegular(N)
                 /\ N >= d1 + d2 - 1
                 /\ \A i1 \in 0 .. (d1 - 1), i2 \in 0 .. (d2 - 1) : (i1 + i2) % N = i1 + i2

\* the transforms of two operands of length 4 have length 8 > 4 + 4 - 1
C3_Witness ==
    /\ call.fn = "fft_einsum"
    /\ args[1].shape = <<4>>
    /\ args[3].shape = <<4>>
    /\ call.fftn1.s = <<8>>
    /\ call.fftn2.s = <<8>>

\* C9: fft_einsum accepts a call whose spectral label is in both input label
\* lists and not in out_labels: the call does not fail.
C9_SpectralLabelSummedAway ==
    (call.fn = "fft_einsum" /\ SpectralInInputs(args) /\ ~SpectralInOutput(args)
        /\ OrdinaryLabelsValid(args)) =>
        call.exc = "none"

(***************************************************************************)
(* transformed_expi (lines 82-105).  An array x is a sequence of integers  *)
(* v standing for the real v / Grid; the direct formula of a value is the  *)
(* record of the formula's name and the value, and the series of a value   *)
(* is the polynomial (its coefficients, lowest degree first) and the       *)
(* value it is evaluated at.                                               *)
(***************************************************************************)
Abs(v) == IF v < 0 THEN -v ELSE v

\* the series is used below 1 / SeriesBelow (line 84); the values of the
\* model are the multiples of half of it
SeriesBelow == 45
Grid == 2 * SeriesBelow

\* ser = abs_x < 1./45. (line 84)
Ser(x) == [i \in 1 .. Len(x) |-> Abs(x[i]) * SeriesBelow < Grid]

\* nser = np.logical_not(ser) (line 85)
logical_not(mask) == [i \in 1 .. Len(mask) |-> ~mask[i]]

\* x[mask]: the elements of x where mask is true, in the order of x
RECURSIVE BoolIndex(_, _)
BoolIndex(x, mask) ==
    IF x = <<>> THEN <<>>
    ELSE (IF Head(mask) THEN <<Head(x)>> ELSE <<>>) \o BoolIndex(Tail(x), Tail(mask))

\* transformed_expi_naive on one value (line 105)
transformed_expi_naive(v) == [fn |-> "-expi(-1/x)*exp(1/x)/x", x |-> v]

\* the loop of transformed_expi_series from n on: c_n is the coefficient of
\* x^(n-1) in the current term, ret the coefficients summed so far
RECURSIVE SeriesLoop(_, _, _)
SeriesLoop(n, c_n, ret) ==
    IF n >= 11 THEN ret
    ELSE SeriesLoop(n + 1, -c_n * n, Append(ret, -c_n * n))

\* transformed_expi_series on one value (lines 97-102)
transformed_expi_series(v) == [poly |-> SeriesLoop(1, 1, <<1>>), x |-> v]

\* np.all(abs_x[:-1] >= abs_x[1:]) (line 94)
AbsNonIncreasing(x) == \A i \in 1 .. (Len(x) - 1) : Abs(x[i]) >= Abs(x[i + 1])

ExpiCall(exc, ans) == [fn |-> "transformed_expi", exc |-> exc, ans |-> ans]

\* transformed_expi whose concatenation puts the series results first
transformed_expi_SeriesFirst(x) ==
    IF ~AbsNonIncreasing(x) THEN ExpiCall("AssertionError", <<>>)
    ELSE LET naive == BoolIndex(x, logical_not(Ser(x)))
             series == BoolIndex(x, Ser(x))
         IN  ExpiCall("none",
                      [i \in 1 .. Len(series) |-> transformed_expi_series(series[i])]
                      \o [i \in 1 .. Len(naive) |-> transformed_expi_naive(naive[i])])

\* transformed_expi without the assertion of line 94
transformed_expi_NoAssert(x) ==
    LET naive == BoolIndex(x, logical_not(Ser(x)))
        series == BoolIndex(x, Ser(x))
    IN  ExpiCall("none",
                 [i \in 1 .. Len(naive) |-> transformed_expi_naive(naive[i])]
                 \o [i \in 1 .. Len(series) |-> transformed_expi_series(series[i])])

\* transformed_expi(x) (lines 82-95)
transformed_expi(x) ==
    IF ~AbsNonIncreasing(x) THEN ExpiCall("AssertionError", <<>>)
    ELSE LET naive == BoolIndex(x, logical_not(Ser(x)))
             series == BoolIndex(x, Ser(x))
         IN  ExpiCall("none",
                      [i \in 1 .. Len(naive) |-> transformed_expi_naive(naive[i])]
                      \o [i \in 1 .. Len(series) |-> transformed_expi_series(series[i])])

\* the arrays of the model: every array of at most MaxLen values among
\* -MaxAbs/Grid .. MaxAbs/Grid, on both sides of 1/45 = 2/Grid
InitExpi ==
    /\ RegularIdle
    /\ \E n \in 0 .. MaxLen : \E x \in [1 .. n -> (-MaxAbs) .. MaxAbs] : args = <<x>>
    /\ call = NoCall

CallTransformedExpi ==
    /\ call.fn = "none"
    /\ call' = transformed_expi(args[1])
    /\ UNCHANGED <<args, regularVars>>

SpecExpi == InitExpi /\ [][CallTransformedExpi]_vars

\* n!
RECURSIVE Factorial(_)
Factorial(n) == IF n = 0 THEN 1 ELSE n * Factorial(n - 1)

\* the 10-term series 1 - x + 2 x^2 - 6 x^3 + ... + 10! x^10 at v
TenTermSeries(r, v) ==
    /\ r.x = v
    /\ Len(r.poly) = 11
    /\ \A n \in 0 .. 10 :
         r.poly[n + 1] = (IF n % 2 = 0 THEN 1 ELSE -1) * Factorial(n)

\* C11: for x sorted by non-increasing absolute value, transformed_expi
\* returns an array of the length of x whose position i holds the value for
\* x[i]: the direct formula where |x[i]| >= 1/45, which is a prefix, and the
\* 10-term series where |x[i]| < 1/45, which is the suffix.
C11_ExpiKeepsOrder ==
    (call.fn = "transformed_expi" /\ AbsNonIncreasing(args[1])) =>
        LET x == args[1]
        IN  /\ call.exc = "none"
            /\ Len(call.ans) = Len(x)
            /\ \A i \in 1 .. Len(x) :
                 IF Abs(x[i]) * SeriesBelow >= Grid
                 THEN call.ans[i] = [fn |-> "-expi(-1/x)*exp(1/x)/x", x |-> x[i]]
                 ELSE TenTermSeries(call.ans[i], x[i])
            /\ \E k \in 0 .. Len(x) :
                 /\ \A i \in 1 .. k : Abs(x[i]) * SeriesBelow >= Grid
                 /\ \A i \in (k + 1) .. Len(x) : Abs(x[i]) * SeriesBelow < Grid

\* a sorted array with values on both sides of 1/45 and of both signs
C11_Witness ==
    /\ call.fn = "transformed_expi"
    /\ call.exc = "none"
    /\ args[1] = <<-3, 2, -1>>
    /\ Len(call.ans) = 3

\* C14 (as stated): an array that is not sorted by non-increasing absolute
\* value is not rejected by transformed_expi.
C14_UnsortedNotRejected ==
    (call.fn = "transformed_expi" /\ ~AbsNonIncreasing(args[1])) => call.exc = "none"

\* C14 (amended): transformed_expi rejects every array that is not sorted
\* by non-increasing absolute value with an AssertionError, and returns
\* nothing for it.
C14_UnsortedRejected ==
    (call.fn = "transformed_expi" /\ ~AbsNonIncreasing(args[1])) =>
        (call.exc = "AssertionError" /\ call.ans = <<>>)

\* an array whose two groups are each sorted but interleaved
C14_Witness ==
    /\ call.fn = "transformed_expi"
    /\ args[1] = <<1, 3>>
    /\ call.exc = "AssertionError"

(***************************************************************************)
(* expm1d (lines 116-128).  A scalar is a whole number, an infinity or     *)
(* nan; the Taylor sum is computed over the rationals, a rational being a  *)
(* pair (numerator, denominator) in lowest terms.                          *)
(***************************************************************************)
Finite(v) == [kind |-> "finite", v |-> v]
PosInf == [kind |-> "inf", v |-> 1]
NegInf == [kind |-> "inf", v |-> -1]
NaN == [kind |-> "nan", v |-> 0]

RECURSIVE Gcd(_, _)
Gcd(a, b) == IF b = 0 THEN a ELSE Gcd(b, a % b)

\* the rational num / den, den > 0, in lowest terms
Rat(num, den) ==
    LET g == Gcd(Abs(num), den)
    IN  <<num \div g, den \div g>>

RatAdd(p, q) == Rat(p[1] * q[2] + q[1] * p[2], p[2] * q[2])

\* the loop of expm1d_taylor from n on, x a whole number: c_n is the
\* current term, ret the sum so far, terms the terms added so far
RECURSIVE TaylorLoop(_, _, _, _, _)
TaylorLoop(n, x, c_n, ret, terms) ==
    IF n >= 11 THEN [sum |-> ret, terms |-> terms]
    ELSE LET c == Rat(c_n[1] * x, c_n[2] * n)
         IN  TaylorLoop(n + 1, x, c, RatAdd(ret, c), Append(terms, c))

\* expm1d_taylor(x) (lines 123-128)
expm1d_taylor(x) == TaylorLoop(2, x, <<1, 1>>, <<1, 1>>, <<>>)

Expm1dCall(branch, ans) == [fn |-> "expm1d", branch |-> branch, ans |-> ans]

\* expm1d that uses the closed form at 0 as well
expm1d_ClosedFormAtZero(x) ==
    IF x = PosInf THEN Expm1dCall("inf", PosInf)
    ELSE Expm1dCall("direct", [fn |-> "expm1(x)/x", x |-> x])

\* expm1d(x) (lines 116-121)
expm1d(x) ==
    IF x = Finite(0) THEN Expm1dCall("taylor", expm1d_taylor(x.v))
    ELSE IF x = PosInf THEN Expm1dCall("inf", PosInf)
    ELSE Expm1dCall("direct", [fn |-> "expm1(x)/x", x |-> x])

\* the scalars of the model
Scalars == {Finite(v) : v \in (-MaxX) .. MaxX} \cup {PosInf, NegInf, NaN}

InitExpm1d ==
    /\ RegularIdle
    /\ \E x \in Scalars : args = <<x>>
    /\ call = NoCall

CallExpm1d ==
    /\ call.fn = "none"
    /\ call' = expm1d(args[1])
    /\ UNCHANGED <<args, regularVars>>

SpecExpm1d == InitExpm1d /\ [][CallExpm1d]_vars

\* C12: expm1d returns, for x = 0, the Taylor sum of the terms n = 2..10,
\* c_n = c_{n-1} * x / n, which is exactly 1; for x = +infinity, +infinity;
\* for every other x, expm1(x)/x.
C12_Expm1dPolicy ==
    call.fn = "expm1d" =>
        LET x == args[1]
        IN  IF x.kind = "finite" /\ x.v = 0
            THEN /\ call.branch = "taylor"
                 /\ Len(call.ans.terms) = 9
                 /\ \A i \in 1 .. 9 : call.ans.terms[i] = <<0, 1>>
                 /\ call.ans.sum = <<1, 1>>
            ELSE IF x.kind = "inf" /\ x.v = 1
            THEN call.branch = "inf" /\ call.ans = PosInf
            ELSE call.branch = "direct" /\ call.ans = [fn |-> "expm1(x)/x", x |-> x]

C12_Witness ==
    /\ call.fn = "expm1d"
    /\ args[1] = Finite(0)
    /\ call.ans.sum = <<1, 1>>

(***************************************************************************)
(* The gradient function of einsum2 (lines 26-40): the forward call, the   *)
(* call of make_einsum_grad, and the invocations of the function grad it   *)
(* returns.  Each step also gives the caller's argument list as the step   *)
(* leaves it.                                                              *)
(***************************************************************************)
\* the caller's arguments after einsum2: line 16 binds args to list(args), a
\* new list, lines 22-23 store new label lists into that list, and
\* numpy.einsum writes to none of its arguments
einsum2_Caller(a, m) == a

\* the list curr_args of an invocation of grad (lines 36-37)
CurrArgs(grad_args, argnum, g) == [grad_args EXCEPT ![argnum + 1] = g]

\* the closure's list after an invocation of grad, had line 37 stored g into
\* grad_args itself
grad_GradArgs_InPlace(grad_args, argnum, g) == CurrArgs(grad_args, argnum, g)

\* the closure's list grad_args after an invocation of grad: line 36 binds
\* curr_args to list(grad_args), a new list, and line 37 stores g into it
grad_GradArgs(grad_args, argnum, g) == grad_args

\* what an invocation of grad hands back (line 38)
GradResult(g, curr_args, exc, val) ==
    [g |-> g, curr_args |-> curr_args, exc |-> exc, val |-> val]

\* grad that leaves the label list of operand argnum where it was
grad_KeepLabels(grad_args, argnum, g, m) ==
    LET curr_args == [CurrArgs(grad_args, argnum, g)
                        EXCEPT ![argnum + 2] = grad_args[Len(grad_args)]]
        r == einsum2(curr_args, m)
    IN  GradResult(g, curr_args, r.exc, r.ans)

\* grad(g) (lines 35-38), with m the numbering its call of einsum2 builds
grad(grad_args, argnum, g, m) ==
    LET curr_args == CurrArgs(grad_args, argnum, g)
        r == einsum2(curr_args, m)
    IN  GradResult(g, curr_args, r.exc, r.ans)

\* the record of the invocations of one gradient function so far
GradCalls(maker, grad_args, invocations) ==
    [fn |-> "grad", argnum |-> maker.argnum, grad_args |-> grad_args,
     ans |-> maker.ans, invocations |-> invocations]

\* (labels of the operands, output labels) of the differentiated calls
GradPatterns ==
    { <<<<<<"a">>, <<"a">>>>, <<>>>>,                 \* inner product
      <<<<<<"a">>, <<"c">>>>, <<"a", "c">>>>,         \* outer product
      <<<<<<"a", "c">>, <<"a">>>>, <<"c">>>>,         \* vector-matrix
      <<<<<<"a", "c">>, <<>>>>, <<"c">>>>,            \* "a" summed out of operand 0 alone
      <<<<<<"a", "a">>>>, <<"a">>>>,                  \* a diagonal
      <<<<<<"a", "c">>>>, <<"c", "a">>>> }            \* transposition

InitGrad ==
    /\ RegularIdle
    /\ \E p \in GradPatterns :
         \/ /\ Len(p[1]) = 1
            /\ \E A \in Tensors(ShapeOf(p[1][1])) : args = <<A, p[1][1], p[2]>>
         \/ /\ Len(p[1]) = 2
            /\ \E A \in Tensors(ShapeOf(p[1][1])), B \in Tensors(ShapeOf(p[1][2])) :
                    args = <<A, p[1][1], B, p[1][2], p[2]>>
    /\ call = NoCall

\* the forward call
GradForward ==
    /\ call.fn = "none"
    /\ \E m \in Numberings(args) :
         /\ call' = einsum2(args, m)
         /\ args' = einsum2_Caller(args, m)
    /\ UNCHANGED regularVars

\* the differentiation driver asks for the gradient function of a tensor
\* operand; make_einsum_grad stores into grad_args, its own list (line 32)
GradMake ==
    /\ call.fn = "einsum2"
    /\ call.exc = "none"
    /\ \E k \in 0 .. ((Len(args) - 1) \div 2 - 1) :
         call' = make_einsum_grad(2 * k, call.ans[1], args)
    /\ UNCHANGED <<args, regularVars>>

\* the driver invokes the gradient function on an upstream gradient g of
\* the shape of the forward result
GradInvoke ==
    /\ \/ call.fn = "make_einsum_grad" /\ call.exc = "none"
       \/ call.fn = "grad" /\ Len(call.invocations) < MaxGradCalls
    /\ \E g \in Tensors(call.ans.shape) :
         \E m \in Numberings(CurrArgs(call.grad_args, call.argnum, g)) :
            call' = GradCalls(call,
                        grad_GradArgs(call.grad_args, call.argnum, g),
                        Append(IF call.fn = "grad" THEN call.invocations ELSE <<>>,
                               grad(call.grad_args, call.argnum, g, m)))
    /\ UNCHANGED <<args, regularVars>>

NextGrad == GradForward \/ GradMake \/ GradInvoke

SpecGrad == InitGrad /\ [][NextGrad]_vars

\* the argument list the gradient rule is to build for operand k and g:
\* position k holds g, position k+1 the output label list, the last
\* position the label list of operand k
ExpectedGradArgs(a, k, g) ==
    [p \in 1 .. Len(a) |->
        IF p = k + 1 THEN g
        ELSE IF p = k + 2 THEN a[Len(a)]
        ELSE IF p = Len(a) THEN a[k + 2]
        ELSE a[p]]

\* C16: for an even argnum k designating a tensor operand, the gradient
\* function applied to g returns einsum2 of the original argument list with
\* three substitutions (g at position k, the output label list at k+1, the
\* label list of operand k as the output list) and nothing else changed:
\* the contraction of g with the remaining operands along operand k's labels.
C16_GradIsRelabelledEinsum ==
    call.fn = "grad" =>
        \A i \in 1 .. Len(call.invocations) :
            LET inv == call.invocations[i]
                expected == ExpectedGradArgs(args, call.argnum, inv.g)
            IN  /\ inv.curr_args = expected
                /\ inv.exc = np_einsum(expected).exc
                /\ inv.val = np_einsum(expected).val

\* the gradient of a vector-matrix product in its matrix: the outer product
\* of the vector and g
C16_Witness ==
    /\ call.fn = "grad"
    /\ call.argnum = 0
    /\ Len(args) = 5
    /\ args[2] = <<"a", "c">>
    /\ args[4] = <<"a">>
    /\ Len(call.invocations) = 1
    /\ call.invocations[1].exc = "none"
    /\ call.invocations[1].val[1].shape = <<2, 1>>
    /\ call.invocations[1].val[1].data[<<1, 0>>] = 1

\* the labels of the operands of a call
OperandLabels(a) ==
    UNION {Range(a[2 * k]) : k \in 1 .. ((Len(a) - 1) \div 2)}

\* C17: for every valid contraction call and every tensor operand k, the
\* einsum2 call built by the gradient rule is a valid contraction call:
\* every label of its output list (the labels of operand k) is in one of
\* its operand label lists, also when operand k has a label of no other
\* operand and not of the original output.
C17_GradCallIsValid ==
    call.fn = "grad" =>
        \A i \in 1 .. Len(call.invocations) :
            LET inv == call.invocations[i]
            IN  Range(inv.curr_args[Len(inv.curr_args)])
                    \subseteq OperandLabels(inv.curr_args)

(***************************************************************************)
(* The caller's objects across the kernel's operations: the steps of the   *)
(* gradient function above, and sum_antidiagonals.                         *)
(***************************************************************************)
\* the caller's arguments after sum_antidiagonals, had lines 52-53 swapped
\* the entries of the caller's list
sum_antidiagonals_Caller_InPlace(arr, labels, axis0, axis1, new_axis) ==
    IF axis0 = axis1 \/ axis0 \notin Range(labels) \/ axis1 \notin Range(labels)
    THEN <<arr, labels, axis0, axis1, new_axis>>
    ELSE <<arr,
           SwapAt(SwapAt(labels, 0, ListIndex(labels, axis0)), 1, ListIndex(labels, axis1)),
           axis0, axis1, new_axis>>

\* the caller's arguments after sum_antidiagonals: swapaxes, [::-1] and
\* trace read arr (line 46-48), line 51 binds labels to list(labels), a new
\* list, and lines 52-54 swap and slice that list
sum_antidiagonals_Caller(arr, labels, axis0, axis1, new_axis) ==
    <<arr, labels, axis0, axis1, new_axis>>

\* a caller about to call sum_antidiagonals
AntidiagPending == [fn |-> "sum_antidiagonals pending"]

InitFrame ==
    \/ InitGrad
    \/ /\ RegularIdle
       /\ \E l \in {ll \in LabelLists : Len(ll) <= 3}, axis0 \in AxisLabels,
             axis1 \in AxisLabels :
            \E arr \in Tensors(AxisShape(l)) : args = <<arr, l, axis0, axis1, "n">>
       /\ call = AntidiagPending

FrameSumAntidiagonals ==
    /\ call = AntidiagPending
    /\ call' = sum_antidiagonals(args[1], args[2], args[3], args[4], args[5])
    /\ args' = sum_antidiagonals_Caller(args[1], args[2], args[3], args[4], args[5])
    /\ UNCHANGED regularVars

NextFrame == NextGrad \/ FrameSumAntidiagonals

SpecFrame == InitFrame /\ [][NextFrame]_vars

\* two invocations of a gradient function on the same g gave the same result
SameResultForSameG(invocations) ==
    \A i, j \in 1 .. Len(invocations) :
        invocations[i].g = invocations[j].g =>
            /\ invocations[i].exc = invocations[j].exc
            /\ invocations[i].val = invocations[j].val

eye(N, M, k) ==
    Tensor(<<N, M>>, [idx \in Indices(<<N, M>>) |-> IF idx[2] - idx[1] = k THEN 1 ELSE 0])

\* range(lo, hi)
range(lo, hi) == [i \in 1 .. (IF hi > lo THEN hi - lo ELSE 0) |-> lo + i - 1]

\* the arguments of the call of einsum2 of the gradient rule (lines 72-75)
TraceGradArgs(a, offset, g) ==
    << eye(a.shape[1], a.shape[2], offset), <<0, 1>>,
       g, range(2, Len(a.shape)),
       range(0, Len(a.shape)) >>

\* the gradient rule with the diagonal of np.eye on the other side
trace_grad_OtherSide(a, offset, g, m) ==
    LET r == einsum2(TraceGradArgs(a, -offset, g), m)
    IN  [fn |-> "trace grad", g |-> g, exc |-> r.exc, val |-> r.ans]

\* trace.defgrad: the function of g (lines 71-75), with m the numbering
\* its call of einsum2 builds
trace_grad(a, offset, g, m) ==
    LET r == einsum2(TraceGradArgs(a, offset, g), m)
    IN  [fn |-> "trace grad", g |-> g, exc |-> r.exc, val |-> r.ans]

\* the product of the entries of a shape
RECURSIVE ShapeSize(_)
ShapeSize(shape) == IF shape = <<>> THEN 1 ELSE Head(shape) * ShapeSize(Tail(shape))

\* the shapes of the arguments of trace: rank 2 or 3, axes of at most
\* MaxTraceDim entries, at most MaxEntries entries in all
TraceShapes ==
    {shape \in [1 .. 2 -> 1 .. MaxTraceDim] \cup [1 .. 3 -> 1 .. MaxTraceDim] :
        ShapeSize(shape) <= MaxEntries}

InitTrace ==
    /\ RegularIdle
    /\ \E shape \in TraceShapes, offset \in (-MaxOffset) .. MaxOffset :
         \E a \in Tensors(shape) : args = <<a, offset>>
    /\ call = NoCall

\* the forward call trace(a, offset)
CallTrace ==
    /\ call.fn = "none"
    /\ call' = [fn |-> "trace", ans |-> trace(args[1], args[2])]
    /\ UNCHANGED <<args, regularVars>>

\* the gradient function invoked on an upstream gradient of the shape of
\* the forward result
TraceGrad ==
    /\ call.fn = "trace"
    /\ \E g \in Tensors(call.ans.shape) :
         \E m \in Numberings(TraceGradArgs(args[1], args[2], g)) :
            call' = trace_grad(args[1], args[2], g, m)
    /\ UNCHANGED <<args, regularVars>>

NextTrace == CallTrace \/ TraceGrad

SpecTrace == InitTrace /\ [][NextTrace]_vars

\* C18: the gradient rule of trace(a, offset) maps g, of the shape of a
\* without its two leading axes, to a tensor G of the rank and shape of a
\* with G[i, j, rest] = g[rest] where j - i = offset and 0 elsewhere; for a
\* 2-D input g is a scalar placed on the offset diagonal.
C18_TraceGradient ==
    call.fn = "trace grad" =>
        LET a == args[1]
            G == call.val[1]
        IN  /\ call.exc = "none"
            /\ call.g.shape = SubSeq(a.shape, 3, Len(a.shape))
            /\ G.shape = a.shape
            /\ \A idx \in Indices(a.shape) :
                 G.data[idx] = IF idx[2] - idx[1] = args[2]
                               THEN call.g.data[SubSeq(idx, 3, Len(idx))]
                               ELSE 0

\* a 3-D input with two rows and an offset below the main diagonal
C18_Witness ==
    /\ call.fn = "trace grad"
    /\ args[1].shape = <<2, 1, 2>>
    /\ args[2] = -1
    /\ call.g.data[<<1>>] = 1
    /\ call.val[1].data[<<1, 0, 1>>] = 1
    /\ call.val[1].data[<<0, 0, 1>>] = 0

(***************************************************************************)
(* The gradient rule of fftn (lines 159-163).  As for fft_einsum, a        *)
(* transform is the record of the padded or truncated tensor it is the     *)
(* transform of; its entries have that tensor's shape.                     *)
(***************************************************************************)
Max(a, b) == IF a > b THEN a ELSE b

\* g_s taken from the shape of the output alone
FftnGradLengths_OutputSize(x_shape, ans_shape, axes) ==
    [i \in 1 .. Len(axes) |-> ans_shape[axes[i] + 1]]

\* g_s = tuple(np.array(map(max, zip(x.shape, ans.shape)))[axes]) (line 161)
FftnGradLengths(x_shape, ans_shape, axes) ==
    [i \in 1 .. Len(axes) |-> Max(x_shape[axes[i] + 1], ans_shape[axes[i] + 1])]

\* t[gslice], gslice = slice(0, sz) for every sz of x.shape (lines 160, 162):
\* the shape of the slice of a transform t
SliceShape(t_shape, x_shape) == [j \in 1 .. Len(t_shape) |-> Min(t_shape[j], x_shape[j])]

\* fftngrad(ans, x, s, axes) applied to g (lines 159-162)
fftngrad(ans, x, s, axes, g) ==
    LET g_s == FftnGradLengths(x.shape, ans.of.shape, axes)
        t == fftn(g, g_s, axes)
    IN  [fn |-> "fftn grad", g |-> g, g_s |-> g_s, transform |-> t,
         shape |-> SliceShape(t.of.shape, x.shape)]

\* the tensors of a shape whose entries are all equal
ConstantTensors(shape) ==
    {Tensor(shape, [idx \in Indices(shape) |-> v]) : v \in 0 .. MaxVal}

\* the shapes of rank 1 and 2 with axes of at most MaxFftLen entries and at
\* most MaxEntries entries in all
FftnShapes ==
    {shape \in [1 .. 1 -> 1 .. MaxFftLen] \cup [1 .. 2 -> 1 .. MaxFftLen] :
        ShapeSize(shape) <= MaxEntries}

\* the lists of distinct axes of a tensor of a rank
AxesOf(rank) ==
    {axes \in UNION {[1 .. n -> 0 .. (rank - 1)] : n \in 1 .. rank} :
        \A i, j \in 1 .. Len(axes) : axes[i] = axes[j] => i = j}

\* the calls fftn(x, s, axes) of the model: x of a shape of FftnShapes (the
\* rule reads the shape of x only), any axes, any lengths s that pad or
\* truncate, the output of at most MaxEntries entries
InitFftn ==
    /\ RegularIdle
    /\ \E shape \in FftnShapes :
         \E x \in ConstantTensors(shape), axes \in AxesOf(Len(shape)) :
            \E s \in [1 .. Len(axes) -> 1 .. MaxFftLen] :
                /\ ShapeSize(PadTo(x, s, axes).shape) <= MaxEntries
                /\ args = <<x, s, axes>>
    /\ call = NoCall

\* the forward call fftn(x, s, axes)
CallFftn ==
    /\ call.fn = "none"
    /\ call' = [fn |-> "fftn", ans |-> fftn(args[1], args[2], args[3])]
    /\ UNCHANGED <<args, regularVars>>

\* the gradient function invoked on an upstream gradient of the shape of
\* the output
FftnGrad ==
    /\ call.fn = "fftn"
    /\ \E g \in Tensors(call.ans.of.shape) :
         call' = fftngrad(call.ans, args[1], args[2], args[3], g)
    /\ UNCHANGED <<args, regularVars>>

NextFftn == CallFftn \/ FftnGrad

SpecFftn == InitFftn /\ [][NextFftn]_vars

\* C19: the gradient rule of fftn(x, s, axes) returns, for every g of the
\* output's shape, a tensor of exactly the shape of x, whether s pads or
\* truncates the transformed axes: g is transformed along axes at the
\* length max(x size, output size) and sliced to the shape of x on every axis.
C19_FftnGradShape ==
    call.fn = "fftn grad" =>
        LET x == args[1]
            axes == args[3]
        IN  /\ call.shape = x.shape
            /\ call.transform.axes = axes
            /\ \A i \in 1 .. Len(axes) :
                 /\ call.g.shape[axes[i] + 1] = args[2][i]
                 /\ call.transform.s[i] =
                      (IF x.shape[axes[i] + 1] >= args[2][i]
                       THEN x.shape[axes[i] + 1] ELSE args[2][i])
                 /\ call.transform.of.shape[axes[i] + 1] = call.transform.s[i]

\* a call that truncates one axis and pads the other
C19_Witness ==
    /\ call.fn = "fftn grad"
    /\ args[1].shape = <<3, 1>>
    /\ args[2] = <<2, 2>>
    /\ args[3] = <<1, 0>>
    /\ call.g.shape = <<2, 2>>
    /\ call.shape = <<3, 1>>

(***************************************************************************)
(* JackknifeGoodnessFitStat (momi/sfs_stats.py, lines 375-465).  A number  *)
(* is a rational [num, den] in lowest terms, or Undefined where a division *)
(* by zero was made; jackknifed_array is [items |-> the numbers of the     *)
(* array], or a number where a plain number was wrapped.                   *)
(***************************************************************************)
Num(n, d) ==
    LET r == Rat(IF d < 0 THEN -n ELSE n, Abs(d)) IN [num |-> r[1], den |-> r[2]]
Undefined == [num |-> 0, den |-> 0]

\* Python's x + y, x * y and x ** y (y a whole number) on numbers
NumAdd(x, y) ==
    IF x.den = 0 \/ y.den = 0 THEN Undefined
    ELSE Num(x.num * y.den + y.num * x.den, x.den * y.den)
NumMul(x, y) ==
    IF x.den = 0 \/ y.den = 0 THEN Undefined
    ELSE Num(x.num * y.num, x.den * y.den)
RECURSIVE NumPow(_, _)
NumPow(x, y) ==
    IF x.den = 0 \/ y.den # 1 THEN Undefined
    ELSE IF y.num = 0 THEN Num(1, 1)
    ELSE IF y.num > 0 THEN NumMul(x, NumPow(x, Num(y.num - 1, 1)))
    ELSE IF x.num = 0 THEN Undefined
    ELSE NumPow(Num(x.den, x.num), Num(-y.num, 1))

\* numpy's elementwise operation on two arrays, or an array and a number
IsArray(x) == "items" \in DOMAIN x
Broadcast(op(_, _), x, y) ==
    IF IsArray(x) /\ IsArray(y)
    THEN [items |-> [i \in 1 .. Len(x.items) |-> op(x.items[i], y.items[i])]]
    ELSE IF IsArray(x)
    THEN [items |-> [i \in 1 .. Len(x.items) |-> op(x.items[i], y)]]
    ELSE IF IsArray(y)
    THEN [items |-> [i \in 1 .. Len(y.items) |-> op(x, y.items[i])]]
    ELSE op(x, y)

\* JackknifeGoodnessFitStat(expected, observed, jackknifed_array) (lines 390-393)
JackknifeGoodnessFitStat(expected, observed, jackknifed_array) ==
    [expected |-> expected, observed |-> observed,
     jackknifed_array |-> jackknifed_array]

IsStat(x) == "expected" \in DOMAIN x

\* _get_other (lines 459-465)
get_other(other) ==
    IF IsStat(other) THEN other ELSE JackknifeGoodnessFitStat(other, other, other)

\* __add__ (lines 416-421)
stat_add(self, other) ==
    LET o == get_other(other)
    IN  JackknifeGoodnessFitStat(NumAdd(self.expected, o.expected),
                                 NumAdd(self.observed, o.observed),
                                 Broadcast(NumAdd, self.jackknifed_array,
                                           o.jackknifed_array))

\* __mul__ (lines 432-437)
stat_mul(self, other) ==
    LET o == get_other(other)
    IN  JackknifeGoodnessFitStat(NumMul(self.expected, o.expected),
                                 NumMul(self.observed, o.observed),
                                 Broadcast(NumMul, self.jackknifed_array,
                                           o.jackknifed_array))

\* __pow__ (lines 442-447)
stat_pow(self, other) ==
    LET o == get_other(other)
    IN  JackknifeGoodnessFitStat(NumPow(self.expected, o.expected),
                                 NumPow(self.observed, o.observed),
                                 Broadcast(NumPow, self.jackknifed_array,
                                           o.jackknifed_array))

\* __radd__ and __rmul__ (lines 423-424, 439-440)
stat_radd(self, other) == stat_add(self, other)
stat_rmul(self, other) == stat_mul(self, other)

\* Python's c * other and other ** c for a plain number c: the operation of
\* numbers, or the stat's __rmul__ and __pow__
TimesNumber(c, other) == IF IsStat(other) THEN stat_rmul(other, c) ELSE NumMul(c, other)
ToPower(other, c) == IF IsStat(other) THEN stat_pow(other, c) ELSE NumPow(other, c)

\* __sub__ (lines 426-427)
stat_sub(self, other) == stat_add(self, TimesNumber(Num(-1, 1), other))

\* __rsub__ as the difference self - other
stat_rsub_Swapped(self, other) == stat_add(self, TimesNumber(Num(-1, 1), other))

\* __rsub__ (lines 429-430)
stat_rsub(self, other) == stat_add(stat_mul(self, Num(-1, 1)), other)

\* __truediv__ (lines 453-454)
stat_truediv(self, other) == stat_mul(self, ToPower(other, Num(-1, 1)))

\* __rtruediv__ (lines 456-457)
stat_rtruediv(self, other) == stat_mul(stat_pow(self, Num(-1, 1)), other)

\* the numbers of the model, and the stats with a jackknifed_array of two
\* entries
StatNumbers == {Num(v, 1) : v \in 0 .. MaxStat}
Stats ==
    {JackknifeGoodnessFitStat(e, o, [items |-> <<j1, j2>>]) :
        e \in StatNumbers, o \in StatNumbers, j1 \in StatNumbers, j2 \in StatNumbers}

\* a stat a and a second operand, a stat or a plain number
InitStat ==
    /\ RegularIdle
    /\ \E a \in Stats : \E other \in Stats \cup StatNumbers : args = <<a, other>>
    /\ call = NoCall

\* the record of the evaluation of an expression: left op right as written
StatCall(op, left, right, ans) ==
    [fn |-> "stat", op |-> op, left |-> left, right |-> right, ans |-> ans]

\* a + other, a - other, a * other, a / other
StatAdd ==
    /\ call.fn = "none"
    /\ call' = StatCall("+", args[1], args[2], stat_add(args[1], args[2]))
    /\ UNCHANGED <<args, regularVars>>
StatSub ==
    /\ call.fn = "none"
    /\ call' = StatCall("-", args[1], args[2], stat_sub(args[1], args[2]))
    /\ UNCHANGED <<args, regularVars>>
StatMul ==
    /\ call.fn = "none"
    /\ call' = StatCall("*", args[1], args[2], stat_mul(args[1], args[2]))
    /\ UNCHANGED <<args, regularVars>>
StatTruediv ==
    /\ call.fn = "none"
    /\ call' = StatCall("/", args[1], args[2], stat_truediv(args[1], args[2]))
    /\ UNCHANGED <<args, regularVars>>

\* c + a, c - a, c * a, c / a for a plain number c: the number's own
\* operation is not implemented for a stat, Python calls the reflected method
StatRadd ==
    /\ call.fn = "none" /\ ~IsStat(args[2])
    /\ call' = StatCall("+", args[2], args[1], stat_radd(args[1], args[2]))
    /\ UNCHANGED <<args, regularVars>>
StatRsub ==
    /\ call.fn = "none" /\ ~IsStat(args[2])
    /\ call' = StatCall("-", args[2], args[1], stat_rsub(args[1], args[2]))
    /\ UNCHANGED <<args, regularVars>>
StatRmul ==
    /\ call.fn = "none" /\ ~IsStat(args[2])
    /\ call' = StatCall("*", args[2], args[1], stat_rmul(args[1], args[2]))
    /\ UNCHANGED <<args, regularVars>>
StatRtruediv ==
    /\ call.fn = "none" /\ ~IsStat(args[2])
    /\ call' = StatCall("/", args[2], args[1], stat_rtruediv(args[1], args[2]))
    /\ UNCHANGED <<args, regularVars>>

NextStat ==
    \/ StatAdd \/ StatSub \/ StatMul \/ StatTruediv
    \/ StatRadd \/ StatRsub \/ StatRmul \/ StatRtruediv

SpecStat == InitStat /\ [][NextStat]_vars

\* x op y on two numbers, a division by zero being undefined
Arith(op, x, y) ==
    IF x.den = 0 \/ y.den = 0 THEN Undefined
    ELSE IF op = "+" THEN Num(x.num * y.den + y.num * x.den, x.den * y.den)
    ELSE IF op = "-" THEN Num(x.num * y.den - y.num * x.den, x.den * y.den)
    ELSE IF op = "*" THEN Num(x.num * y.num, x.den * y.den)
    ELSE IF y.num = 0 THEN Undefined
    ELSE Num(x.num * y.den, x.den * y.num)

\* the components of an operand, a plain number c standing for (c, c, c)
ExpectedOf(x) == IF IsStat(x) THEN x.expected ELSE x
ObservedOf(x) == IF IsStat(x) THEN x.observed ELSE x
JackknifedOf(x, i) == IF IsStat(x) THEN x.jackknifed_array.items[i] ELSE x

IsFlagToken(tok) == "flag" \in DOMAIN tok

\* the loop of lines 45-50 on the tokens left, unsorted_list built so far
RECURSIVE GroupLoop(_, _)
GroupLoop(tokens, unsorted_list) ==
    IF tokens = <<>> THEN Ok(unsorted_list)
    ELSE IF IsFlagToken(Head(tokens))
    THEN GroupLoop(Tail(tokens), Append(unsorted_list, <<Head(tokens).flag>>))
    ELSE IF unsorted_list = <<>> THEN Raise("UnboundLocalError")
    ELSE GroupLoop(Tail(tokens),
                   [unsorted_list EXCEPT ![Len(unsorted_list)] =
                        Append(@, Head(tokens).num)])

\* event_type[0] == 'e' (line 39), for the flags of ms
StartsWithE(event_type) == event_type \in {"es", "ej", "en", "eN", "eg", "eG"}

\* get_time(event_type, *args) (lines 38-41); -1 where args[0] does not exist
HasTime(cmd) == ~StartsWithE(cmd[1]) \/ Len(cmd) >= 2
get_time(cmd) == IF StartsWithE(cmd[1]) THEN cmd[2] ELSE 0

\* bisect with the insertion point before the equal entries
bisect_left(a, t) == Cardinality({i \in 1 .. Len(a) : a[i] < t})

\* bisect.bisect_right(a, t): the insertion point after the entries <= t
bisect_right(a, t) == Cardinality({i \in 1 .. Len(a) : a[i] <= t})

\* list.insert(idx, x)
Insert(l, idx, x) == SubSeq(l, 1, idx) \o <<x>> \o SubSeq(l, idx + 1, Len(l))

\* the loop of lines 58-67 from the command at position k of unsorted_list
\* on: order lists the positions in unsorted_list of the entries of sorted_cmd
RECURSIVE SortLoop(_, _, _)
SortLoop(unsorted_list, k, st) ==
    IF k > Len(unsorted_list) THEN st
    ELSE LET cmd == unsorted_list[k]
         IN  IF ~HasTime(cmd) THEN [st EXCEPT !.exc = "IndexError"]
             ELSE LET t == get_time(cmd)
                      idx == bisect_right(st.times, t)
                      pidx == bisect_right(st.pop_times, t)
                      st2 == [st EXCEPT !.times = Insert(@, idx, t),
                                        !.sorted_cmd = Insert(@, idx, cmd),
                                        !.order = Insert(@, idx, k)]
                  IN  SortLoop(unsorted_list, k + 1,
                        IF cmd[1] = "es"
                        THEN [st2 EXCEPT
                                !.pop_times = Insert(@, pidx, t),
                                !.sorted_pops = Insert(@, pidx, Len(st.sorted_pops) + 1)]
                        ELSE st2)

\* the parser after sorted_cmd_list: what the call raised, the list it
\* returned with the positions its entries had, pop_by_order (line 70, as
\* the list sorted_pops of the population numbers), prev_time and cmd_list of
\* __init__, and the number of events added so far
Parser(exc, sorted_cmd, order, sorted_pops) ==
    [fn |-> "MsCmdParser", exc |-> exc, sorted_cmd |-> sorted_cmd, order |-> order,
     sorted_pops |-> sorted_pops, prev_time |-> 0, cmd_list |-> <<>>, added |-> 0]

\* sorted_cmd_list(ms_cmd) (lines 43-71)
sorted_cmd_list(ms_cmd) ==
    LET grouped == GroupLoop(ms_cmd, <<>>)
    IN  IF grouped.exc # "none" THEN Parser(grouped.exc, <<>>, <<>>, <<>>)
        ELSE LET unsorted_list == grouped.val[1]
             IN  IF unsorted_list = <<>> THEN Parser("IndexError", <<>>, <<>>, <<>>)
                 ELSE IF unsorted_list[1][1] # "I"
                 THEN Parser("AssertionError", <<>>, <<>>, <<>>)
                 ELSE IF Len(unsorted_list[1]) < 2
                 THEN Parser("IndexError", <<>>, <<>>, <<>>)
                 ELSE LET n_leaf_pop == unsorted_list[1][2]
                          st == SortLoop(unsorted_list, 1,
                                  [exc |-> "none", times |-> <<>>, sorted_cmd |-> <<>>,
                                   order |-> <<>>,
                                   sorted_pops |-> range(1, n_leaf_pop + 1),
                                   pop_times |-> [i \in 1 .. Len(range(1, n_leaf_pop + 1))
                                                    |-> 0]])
                      IN  IF st.exc # "none" THEN Parser(st.exc, <<>>, <<>>, <<>>)
                          ELSE IF st.sorted_cmd[1][1] # "I"
                          THEN Parser("AssertionError", <<>>, <<>>, <<>>)
                          ELSE Parser("none", st.sorted_cmd, st.order, st.sorted_pops)

\* add_event(event_flag, *args) (lines 73-80) on the parser p.  The method
\* _event_flag builds the graph and returns the arguments with the numbers
\* read; it may raise (handler_ok is FALSE), and then nothing else is done.
add_event(p, cmd, handler_ok) ==
    IF ~handler_ok THEN [p EXCEPT !.exc = "handler error"]
    ELSE LET returned == cmd
         IN  IF ~HasTime(returned) THEN [p EXCEPT !.exc = "IndexError"]
             ELSE IF ~(get_time(returned) >= p.prev_time)
             THEN [p EXCEPT !.exc = "AssertionError at line 78"]
             ELSE [p EXCEPT !.prev_time = get_time(returned),
                            !.cmd_list = Append(@, cmd),
                            !.added = @ + 1]

\* the tokens of the commands of a command line
RECURSIVE TokensOf(_)
TokensOf(cmds) ==
    IF cmds = <<>> THEN <<>>
    ELSE <<[flag |-> Head(cmds)[1]], [num |-> Head(cmds)[2]]>> \o TokensOf(Tail(cmds))

\* the command lines of the model: at most MaxCmds commands -I, -n, -en or
\* -es, each with one number -1..MaxTime, after nothing or a leading number
MsFlags == {"I", "n", "en", "es"}
InitMs ==
    /\ RegularIdle
    /\ \E n \in 1 .. MaxCmds :
         \E cmds \in [1 .. n -> MsFlags \X ((-1) .. MaxTime)],
            lead \in {<<>>, <<[num |-> 1]>>} :
                args = <<lead \o TokensOf(cmds)>>
    /\ call = NoCall

\* _to_nx: parser.sorted_cmd_list(ms_cmd) on a new parser (lines 19-20)
CallSortedCmdList ==
    /\ call.fn = "none"
    /\ call' = sorted_cmd_list(args[1])
    /\ UNCHANGED <<args, regularVars>>

\* _to_nx: parser.add_event on the next event of the list (lines 21-22)
AddEvent ==
    /\ call.fn = "MsCmdParser"
    /\ call.exc = "none"
    /\ call.added < Len(call.sorted_cmd)
    /\ \E handler_ok \in BOOLEAN :
         call' = add_event(call, call.sorted_cmd[call.added + 1], handler_ok)
    /\ UNCHANGED <<args, regularVars>>

NextMs == CallSortedCmdList \/ AddEvent

SpecMs == InitMs /\ [][NextMs]_vars

\* the time of a command: its first argument if its flag starts with 'e'
TimeOf(cmd) == IF cmd[1] \in {"en", "es"} THEN cmd[2] ELSE 0

\* C20: sorted_cmd_list returns the commands ordered by time (time 0 for
\* the flags that do not start with 'e'), in command-line order among the
\* commands of equal time, with -I first; over the add_event calls fed from
\* it prev_time never decreases and the assertion t >= prev_time never fails.
C20_EventsInTimeOrder ==
    [][call'.fn = "MsCmdParser" =>
         /\ call'.exc # "AssertionError at line 78"
         /\ call.fn = "MsCmdParser" => call'.prev_time >= call.prev_time
         /\ call'.exc = "none" =>
              LET sorted == call'.sorted_cmd
                  order == call'.order
              IN  /\ sorted[1][1] = "I"
                  /\ Len(sorted) = (Len(args[1]) \div 2)
                  /\ {order[i] : i \in 1 .. Len(order)} = 1 .. Len(sorted)
                  /\ \A i \in 1 .. Len(sorted) :
                       /\ sorted[i][1] = args[1][2 * order[i] - 1].flag
                       /\ sorted[i][2] = args[1][2 * order[i]].num
                  /\ \A i, j \in 1 .. Len(sorted) :
                       i < j =>
                         \/ TimeOf(sorted[i]) < TimeOf(sorted[j])
                         \/ /\ TimeOf(sorted[i]) = TimeOf(sorted[j])
                            /\ order[i] < order[j]]_vars

\* -I 1 -es 1 -n 1: -n is moved before the event -es, and all three events
\* have been added
C20_Witness ==
    /\ call.fn = "MsCmdParser"
    /\ call.exc = "none"
    /\ call.order = <<1, 3, 2>>
    /\ call.sorted_cmd[3][1] = "es"
    /\ call.added = 3
    /\ call.prev_time = 1

(***************************************************************************)
(* MsCmdParser: the graph the events build (parse_ms.py, lines 82-291).    *)
(* A node name is an int (a population of -I, or the new population of     *)
(* -es), the 1-tuple (child,) or the pair (roots[i], roots[j]).  Names are *)
(* written in prefix form as sequences of integers, so that two names are  *)
(* equal exactly when the Python values are: n is <<n>>, (c,) is <<0>>     *)
(* followed by c, (a, b) is <<-1>> followed by a and b.  None is <<>>.     *)
(* A population of a command is [hash |-> FALSE, k |-> k] for the string   *)
(* "k" and [hash |-> TRUE, k |-> k] for the string "#k".                   *)
(***************************************************************************)
IntName(n) == <<n>>
TupleName(child) == <<0>> \o child
PairName(a, b) == <<-1>> \o a \o b
NoRoot == <<>>

PopNumber(k) == [hash |-> FALSE, k |-> k]
PopHash(k) == [hash |-> TRUE, k |-> k]

\* '#k' read as the population k
pop_by_order_Identity(sorted_pops, k) == k

\* pop_by_order['#k'] (line 70): the place of '#k' in sorted_pops
pop_by_order(sorted_pops, k) == CHOOSE i \in 1 .. Len(sorted_pops) : sorted_pops[i] = k

\* getpop(pop) (lines 82-87) for the strings of a command line
getpop(p, pop) ==
    IF pop.hash
    THEN IF \E i \in 1 .. Len(p.sorted_pops) : p.sorted_pops[i] = pop.k
         THEN Ok(pop_by_order(p.sorted_pops, pop.k))
         ELSE Raise("KeyError")
    ELSE Ok(pop.k)

\* an epoch of a node's 'sizes': a dict with 't', 'N', 'alpha', and 'tau'
\* and 'N_top' once set_sizes has run; a key that is absent is <<>>.  The
\* growth rates of the model are all None (-g with rate "0", lines 188-189).
Epoch(t, N, alpha) == [t |-> t, N |-> N, alpha |-> alpha, tau |-> <<>>, N_top |-> <<>>]

\* the loop of lines 265-284 from epoch i on, sizes being the list without
\* the dummy epoch, whose time is end_time (Fin(t) or Inf)
RECURSIVE SetSizesLoop(_, _, _, _, _, _)
SetSizesLoop(sizes, i, N, alpha, end_time, pieces) ==
    IF i > Len(sizes) THEN [exc |-> "none", sizes |-> sizes, pieces |-> pieces]
    ELSE LET next_t == IF i < Len(sizes) THEN Fin(sizes[i + 1].t) ELSE end_time
             tau == IF next_t.inf THEN Inf ELSE Fin(next_t.n - sizes[i].t)
             N_i == IF sizes[i].N = <<>> THEN N ELSE sizes[i].N
             alpha_i == IF sizes[i].alpha = <<>> THEN alpha ELSE sizes[i].alpha
             \* alpha is None: ConstantHistory(tau, N), N_top is N
             piece == [fn |-> "ConstantHistory", tau |-> tau, N |-> N_i[1]]
             done == [sizes EXCEPT ![i] = [@ EXCEPT !.tau = <<tau>>, !.N = N_i,
                                                    !.alpha = alpha_i, !.N_top = N_i]]
         IN  IF ~((tau.inf \/ tau.n >= 0) /\ N_i[1] >= 0)
             THEN [exc |-> "IOError: Negative time or population size",
                   sizes |-> done, pieces |-> pieces]
             ELSE SetSizesLoop(done, i + 1, N_i, alpha_i, end_time, Append(pieces, piece))

\* set_sizes(node_data, end_time) (lines 256-291): the node data afterwards
set_sizes(node_data, end_time) ==
    LET sizes == node_data.sizes
        loop == SetSizesLoop(sizes, 1, sizes[1].N, sizes[1].alpha, end_time, <<>>)
    IN  IF loop.exc # "none" THEN Raise(loop.exc)
        ELSE Ok([node_data EXCEPT !.sizes = loop.sizes,
                                  !.model = <<[fn |-> "PiecewiseHistory",
                                               pieces |-> loop.pieces]>>])

\* what a method _flag hands to add_event: the parser afterwards and the
\* arguments it returns, or the exception it raises with the parser as it was
Handled(p, returned) == [exc |-> "none", p |-> p, returned |-> returned]
Failed(p, exc) == [exc |-> exc, p |-> p, returned |-> <<>>]

\* the entry v of a dict under the key k
Put(dict, k, v) == [x \in DOMAIN dict \cup {k} |-> IF x = k THEN v ELSE dict[x]]
EmptyDict == [x \in {} |-> <<>>]

\* _I(npop, *lins_per_pop) (lines 203-216)
ms_I(p, npop, lins_per_pop) ==
    IF ~(p.roots = <<>> /\ p.events = <<>> /\ p.edges = <<>> /\ DOMAIN p.nodes = {})
    THEN Failed(p, "AssertionError")
    ELSE IF Len(lins_per_pop) # npop THEN Failed(p, "IOError: Bad args for -I")
    ELSE Handled([p EXCEPT
                    !.nodes = [name \in {IntName(i) : i \in Range(range(1, npop + 1))} |->
                                 [sizes |-> <<Epoch(0, <<1>>, <<"None">>)>>,
                                  lineages |-> <<lins_per_pop[name[1]]>>,
                                  splitprobs |-> <<>>, model |-> <<>>]],
                    !.roots = [i \in 1 .. Len(range(1, npop + 1)) |-> IntName(i)]],
                 <<npop>> \o lins_per_pop)

\* a node with the key 'sizes' alone (lines 102, 103, 128)
NewNode(epoch) == [sizes |-> <<epoch>>, lineages |-> <<>>, splitprobs |-> <<>>, model |-> <<>>]

\* l[-1]
Last(l) == l[Len(l)]

\* self.roots[i] is a key of self.nodes: i is a key of roots and not None
IsLiveRoot(p, i) == i \in 1 .. Len(p.roots) /\ p.roots[i] # NoRoot

\* len(self.roots)+1 (lines 96 and 110): the roots index and the node name
\* of the population that -es creates
ms_es_NewIndex(p) == Len(p.roots) + 1

\* _es(t, i, p) (lines 89-112)
ms_es(p, t, pop, prob) ==
    LET got == getpop(p, pop)
    IN  IF got.exc # "none" THEN Failed(p, got.exc)
        ELSE IF ~IsLiveRoot(p, got.val[1]) THEN Failed(p, "KeyError")
        ELSE
        LET i == got.val[1]
            child == p.roots[i]
            sized == set_sizes(p.nodes[child], Fin(t))
            parents == <<TupleName(child), IntName(ms_es_NewIndex(p))>>
        IN  IF sized.exc # "none" THEN Failed(p, sized.exc)
            ELSE IF parents[1] \in DOMAIN p.nodes \/ parents[2] \in DOMAIN p.nodes
            THEN Failed(p, "AssertionError")
            ELSE
            LET prev == Last(sized.val[1].sizes)
                split == [sized.val[1] EXCEPT !.splitprobs =
                            <<[par |-> parents[1], prob |-> prob],
                              [par |-> parents[2], prob |-> 1 - prob]>>]
                nodes == Put(Put(Put(p.nodes, child, split),
                                 parents[1], NewNode(Epoch(t, prev.N_top, prev.alpha))),
                             parents[2], NewNode(Epoch(t, <<1>>, <<"None">>)))
                new_edges == <<<<parents[1], child>>, <<parents[2], child>>>>
            IN  Handled([p EXCEPT !.nodes = nodes,
                                  !.events = Append(@, new_edges),
                                  !.edges = @ \o new_edges,
                                  !.roots = [k \in 1 .. ms_es_NewIndex(p) |->
                                               IF k = i THEN parents[1]
                                               ELSE IF k = ms_es_NewIndex(p) THEN parents[2]
                                               ELSE p.roots[k]]],
                        <<t, i, prob>>)

\* roots after a join that leaves the entry of i as it was
JoinedRoots_Kept(roots, i, j, new_pop) == [roots EXCEPT ![j] = new_pop]

\* roots after roots[j] = new_pop and then roots[i] = None (lines 132-134)
JoinedRoots(roots, i, j, new_pop) ==
    [k \in 1 .. Len(roots) |->
        IF k = i THEN NoRoot ELSE IF k = j THEN new_pop ELSE roots[k]]

\* _ej(t, i, j) (lines 114-136)
ms_ej(p, t, pop_i, pop_j) ==
    LET got_i == getpop(p, pop_i)
        got_j == getpop(p, pop_j)
    IN  IF got_i.exc # "none" THEN Failed(p, got_i.exc)
        ELSE IF got_j.exc # "none" THEN Failed(p, got_j.exc)
        ELSE IF ~IsLiveRoot(p, got_i.val[1]) \/ ~IsLiveRoot(p, got_j.val[1])
        THEN Failed(p, "KeyError")
        ELSE
        LET i == got_i.val[1]
            j == got_j.val[1]
            sized_i == set_sizes(p.nodes[p.roots[i]], Fin(t))
        IN  IF sized_i.exc # "none" THEN Failed(p, sized_i.exc)
            ELSE
            LET nodes_i == Put(p.nodes, p.roots[i], sized_i.val[1])
                sized_j == set_sizes(nodes_i[p.roots[j]], Fin(t))
                new_pop == PairName(p.roots[i], p.roots[j])
            IN  IF sized_j.exc # "none" THEN Failed(p, sized_j.exc)
                ELSE IF new_pop \in DOMAIN p.nodes THEN Failed(p, "AssertionError")
                ELSE
                LET nodes_j == Put(nodes_i, p.roots[j], sized_j.val[1])
                    prev == Last(nodes_j[p.roots[j]].sizes)
                    new_edges == <<<<new_pop, p.roots[i]>>, <<new_pop, p.roots[j]>>>>
                IN  Handled([p EXCEPT
                               !.nodes = Put(nodes_j, new_pop,
                                             NewNode(Epoch(t, prev.N_top, prev.alpha))),
                               !.events = Append(@, new_edges),
                               !.edges = @ \o new_edges,
                               !.roots = JoinedRoots(p.roots, i, j, new_pop)],
                            <<t, i, j>>)

\* _n(i, N) (lines 167-178).  kwargs is no name of _n nor of the module, so
\* building the IOError of line 170 raises NameError.
ms_n(p, pop, N) ==
    IF p.roots = <<>> THEN Failed(p, "AssertionError")
    ELSE IF p.events # <<>> THEN Failed(p, "NameError")
    ELSE IF ~(p.edges = <<>> /\ Cardinality(DOMAIN p.nodes) = Len(p.roots))
    THEN Failed(p, "AssertionError")
    ELSE LET got == getpop(p, pop)
         IN  IF got.exc # "none" THEN Failed(p, got.exc)
             ELSE IF ~IsLiveRoot(p, got.val[1]) THEN Failed(p, "KeyError")
             ELSE LET i == got.val[1]
                      name == p.roots[i]
                  IN  IF Len(p.nodes[name].sizes) # 1 THEN Failed(p, "AssertionError")
                      ELSE Handled([p EXCEPT !.nodes[name].sizes[1].N = <<N>>], <<i, N>>)

\* _g(i, alpha) (lines 180-194) with alpha the string "0", which is read as
\* None (lines 188-189); the name kwargs of line 183 is as in _n
ms_g(p, pop) ==
    IF p.roots = <<>> THEN Failed(p, "AssertionError")
    ELSE IF p.events # <<>> THEN Failed(p, "NameError")
    ELSE IF ~(p.edges = <<>> /\ Cardinality(DOMAIN p.nodes) = Len(p.roots))
    THEN Failed(p, "AssertionError")
    ELSE LET got == getpop(p, pop)
         IN  IF got.exc # "none" THEN Failed(p, got.exc)
             ELSE IF ~IsLiveRoot(p, got.val[1]) THEN Failed(p, "KeyError")
             ELSE LET i == got.val[1]
                      name == p.roots[i]
                  IN  IF Len(p.nodes[name].sizes) # 1 THEN Failed(p, "AssertionError")
                      ELSE Handled([p EXCEPT !.nodes[name].sizes[1].alpha = <<"None">>],
                                   <<i, "None">>)

\* the loop of lines 198-200 from the key i of roots on
RECURSIVE ms_G_Loop(_, _)
ms_G_Loop(p, i) ==
    IF i > Len(p.roots) THEN Handled(p, <<0>>)
    ELSE IF p.roots[i] = NoRoot THEN ms_G_Loop(p, i + 1)
    ELSE LET done == ms_g(p, PopNumber(i))
         IN  IF done.exc # "none" THEN Failed(p, done.exc)
             ELSE ms_G_Loop(done.p, i + 1)

\* _G(rate) (lines 196-201) with rate the string "0"
ms_G(p) ==
    IF p.roots = <<>> THEN Failed(p, "AssertionError")
    ELSE ms_G_Loop(p, 1)

\* getattr(self, '_' + event_flag)(*args) (line 76) for the flags modelled
Handler(p, cmd) ==
    CASE cmd[1] = "I" -> ms_I(p, cmd[2], SubSeq(cmd, 3, Len(cmd)))
      [] cmd[1] = "es" -> ms_es(p, cmd[2], cmd[3], cmd[4])
      [] cmd[1] = "ej" -> ms_ej(p, cmd[2], cmd[3], cmd[4])
      [] cmd[1] = "n" -> ms_n(p, cmd[2], cmd[3])
      [] cmd[1] = "g" -> ms_g(p, cmd[2])
      [] cmd[1] = "G" -> ms_G(p)

\* add_event(event_flag, *args) (lines 73-80) with the method it calls
add_event_Handled(p, cmd) ==
    LET done == Handler(p, cmd)
        returned == <<cmd[1]>> \o done.returned
    IN  IF done.exc # "none" THEN [p EXCEPT !.exc = done.exc]
        ELSE IF ~(get_time(returned) >= p.prev_time)
        THEN [done.p EXCEPT !.exc = "AssertionError at line 78"]
        ELSE [done.p EXCEPT !.prev_time = get_time(returned),
                            !.cmd_list = Append(@, returned),
                            !.added = @ + 1]

\* the roots that are not None (line 237)
LiveRoots(roots) == SelectSeq(roots, LAMBDA r : r # NoRoot)

\* to_nx() (lines 235-254): graph is <<>> until a graph is returned
to_nx(p) ==
    IF DOMAIN p.nodes = {} THEN [p EXCEPT !.exc = "AssertionError", !.fn = "to_nx"]
    ELSE IF Len(LiveRoots(p.roots)) # 1
    THEN [p EXCEPT !.exc = "IOError: Must have a single root population",
                   !.roots = LiveRoots(p.roots), !.fn = "to_nx"]
    ELSE LET node == LiveRoots(p.roots)[1]
             sized == set_sizes(p.nodes[node], Inf)
         IN  IF sized.exc # "none"
             THEN [p EXCEPT !.exc = sized.exc, !.roots = LiveRoots(p.roots), !.fn = "to_nx"]
             ELSE [p EXCEPT !.fn = "to_nx",
                            !.roots = LiveRoots(p.roots),
                            !.nodes = Put(p.nodes, node, sized.val[1]),
                            !.graph = <<[edges |-> Range(p.edges),
                                         nodes |-> DOMAIN p.nodes
                                                   \cup {e[1] : e \in Range(p.edges)}
                                                   \cup {e[2] : e \in Range(p.edges)},
                                         cmd |-> p.cmd_list,
                                         events |-> p.events]>>]

\* the tokens of a command <<flag, argument, ...>>
CommandTokens(cmd) ==
    <<[flag |-> cmd[1]]>> \o [i \in 1 .. (Len(cmd) - 1) |-> [num |-> cmd[i + 1]]]

RECURSIVE LineTokens(_)
LineTokens(cmds) ==
    IF cmds = <<>> THEN <<>> ELSE CommandTokens(Head(cmds)) \o LineTokens(Tail(cmds))

\* the pairs of populations that the -ej commands of the model join
JoinedPops ==
    {<<PopNumber(1), PopNumber(2)>>, <<PopNumber(2), PopNumber(1)>>,
     <<PopHash(2), PopNumber(1)>>, <<PopHash(3), PopNumber(1)>>,
     <<PopNumber(1), PopNumber(1)>>}

\* the commands after -I: -es t i 1, -ej t i j, -n i N, -g i 0, -G 0
EventCommands ==
    {<<"es", t, PopNumber(i), 1>> : t \in 0 .. MaxTime, i \in 1 .. 2}
    \cup {<<"ej", t, ij[1], ij[2]>> : t \in 0 .. MaxTime, ij \in JoinedPops}
    \cup {<<"n", PopNumber(1), 2>>, <<"n", PopHash(2), 2>>, <<"n", PopNumber(1), -1>>}
    \cup {<<"g", PopNumber(1), 0>>}
    \cup {<<"G", 0>>}

\* -I npop 1 ... 1
InitialCommand(npop) == <<"I", npop>> \o [i \in 1 .. npop |-> 1]

InitGraph ==
    /\ RegularIdle
    /\ \E npop \in 0 .. MaxPops, n \in 0 .. MaxEvents :
         \E events \in [1 .. n -> EventCommands] :
            args = <<LineTokens(<<InitialCommand(npop)>> \o events)>>
    /\ call = NoCall

\* _to_nx: MsCmdParser() and parser.sorted_cmd_list(ms_cmd) (lines 19-20)
GraphSortedCmdList ==
    /\ call.fn = "none"
    /\ call' = sorted_cmd_list(args[1])
               @@ [roots |-> <<>>, nodes |-> EmptyDict, events |-> <<>>, edges |-> <<>>,
                   graph |-> <<>>]
    /\ UNCHANGED <<args, regularVars>>

\* _to_nx: parser.add_event on the next event of the list (lines 21-22)
GraphAddEvent ==
    /\ call.fn = "MsCmdParser"
    /\ call.exc = "none"
    /\ call.added < Len(call.sorted_cmd)
    /\ call' = add_event_Handled(call, call.sorted_cmd[call.added + 1])
    /\ UNCHANGED <<args, regularVars>>

\* _to_nx: parser.to_nx() after the last event (line 23)
GraphToNx ==
    /\ call.fn = "MsCmdParser"
    /\ call.exc = "none"
    /\ call.added = Len(call.sorted_cmd)
    /\ call' = to_nx(call)
    /\ UNCHANGED <<args, regularVars>>

NextGraph == GraphSortedCmdList \/ GraphAddEvent \/ GraphToNx

SpecGraph == InitGraph /\ [][NextGraph]_vars

\* the number of commands with the flag among the events added so far
Added(p, flag) ==
    Cardinality({i \in 1 .. p.added : p.sorted_cmd[i][1] = flag})

\* the number of populations whose roots entry is not None
LiveCount(p) == Cardinality({i \in 1 .. Len(p.roots) : p.roots[i] # NoRoot})

\* C21 (population count): after -I with npop populations and the -es and
\* -ej events added so far, the populations whose roots entry is not None
\* number npop + (number of -es) - (number of -ej).
C21_LiveRootsCount ==
    (call.fn = "MsCmdParser" /\ call.exc = "none" /\ call.added >= 1)
        => LiveCount(call) = call.sorted_cmd[1][2] + Added(call, "es") - Added(call, "ej")

\* what C21_LiveRootsCount counted before to_nx replaced roots by its list
OldCount(p) == p.sorted_cmd[1][2] + Added(p, "es") - Added(p, "ej")

\* C21 as stated: the count above, and to_nx returns a graph only when the
\* count is 1, raises IOError('Must have a single root population') for
\* every other count, and every edge of the graph joins two keys of nodes.
C21_SingleRootGraph ==
    /\ C21_LiveRootsCount
    /\ call.fn = "to_nx" =>
         /\ call.graph # <<>> => OldCount(call) = 1
         /\ OldCount(call) # 1 => call.exc = "IOError: Must have a single root population"
         /\ call.graph # <<>> =>
              \A e \in call.graph[1].edges :
                  e[1] \in DOMAIN call.nodes /\ e[2] \in DOMAIN call.nodes

\* C21 with at least one population: the same, and for -I 0 (no node at all)
\* to_nx fails its assertion of line 236 instead.
C21_SingleRootGraphWithNodes ==
    /\ C21_LiveRootsCount
    /\ call.fn = "to_nx" =>
         /\ call.graph # <<>> => OldCount(call) = 1
         /\ (OldCount(call) # 1 /\ call.sorted_cmd[1][2] >= 1)
                => call.exc = "IOError: Must have a single root population"
         /\ call.sorted_cmd[1][2] = 0 => call.exc = "AssertionError"
         /\ call.graph # <<>> =>
              \A e \in call.graph[1].edges :
                  e[1] \in DOMAIN call.nodes /\ e[2] \in DOMAIN call.nodes

\* -I 1 1 -es 0 1 1 -ej 1 #2 1: two populations after -es, one after -ej,
\* and the graph of the four edges
C21_Witness ==
    /\ call.fn = "to_nx"
    /\ call.sorted_cmd[1][2] = 1
    /\ call.added = 3
    /\ Added(call, "es") = 1
    /\ Added(call, "ej") = 1
    /\ call.graph # <<>>
    /\ Cardinality(call.graph[1].edges) = 4
    /\ Len(call.roots) = 1

\* the place among the -es commands of the command line of the -es command
\* that is the s-th of the sorted list
EsRank(p, s) ==
    Cardinality({r \in 1 .. Len(p.sorted_cmd) :
                    p.sorted_cmd[r][1] = "es" /\ p.order[r] <= p.order[s]})

\* C22: with the events executed in sorted order, the label '#k' of the
\* population that the (k - npop)-th -es of the command line creates
\* resolves to the roots index len(roots)+1 that _es gives that population,
\* and '#k' with k <= npop resolves to k.
C22_HashLabelsResolve ==
    [][(call'.fn = "MsCmdParser" /\ call'.exc = "none") =>
         LET npop == call'.sorted_cmd[1][2]
         IN  /\ \A k \in 1 .. npop : getpop(call', PopHash(k)) = Ok(k)
             /\ (/\ call.fn = "MsCmdParser"
                 /\ call'.added = call.added + 1
                 /\ call.sorted_cmd[call'.added][1] = "es")
                  => /\ Len(call'.roots) = Len(call.roots) + 1
                     /\ getpop(call', PopHash(npop + EsRank(call, call'.added)))
                            = Ok(Len(call'.roots))]_vars

\* -I 1 1 -es 1 1 1 -es 0 1 1: the second -es is executed first, so that
\* '#3' is the population 2 of roots and '#2' the population 3
C22_Witness ==
    /\ call.fn = "MsCmdParser"
    /\ call.exc = "none"
    /\ call.added = 3
    /\ call.order = <<1, 3, 2>>
    /\ call.sorted_cmd[2][1] = "es"
    /\ call.sorted_cmd[3][1] = "es"
    /\ getpop(call, PopHash(3)) = Ok(2)
    /\ getpop(call, PopHash(2)) = Ok(3)
    /\ Len(call.roots) = 3

\* the next event is -n, -g or -G and a demographic event has been recorded
LateSizeChange ==
    /\ call.fn = "MsCmdParser"
    /\ call.exc = "none"
    /\ call.added < Len(call.sorted_cmd)
    /\ call.sorted_cmd[call.added + 1][1] \in {"n", "g", "G"}
    /\ call.events # <<>>

\* C23: a -n, -g or -G command executed after a demographic event (-es or
\* -ej) has been recorded is rejected with an IOError saying that it should
\* be called before any demographic changes, and leaves the nodes, their
\* sizes included, as they were.
C23_LateSizeChangeIsIOError ==
    [][LateSizeChange =>
         /\ call'.exc \in {"IOError: -n should be called before any demographic changes",
                           "IOError: -g,-G should be called before any demographic changes"}
         /\ call'.nodes = call.nodes]_vars

\* what the code does in that case: the command fails with the NameError of
\* the name kwargs, and the nodes are as they were; -G with no population
\* left (all roots None) calls _g on none and is accepted
LateSizeChangeIsNameError ==
    [][LateSizeChange =>
         /\ call'.nodes = call.nodes
         /\ \/ call'.exc = "NameError"
            \/ /\ call.sorted_cmd[call.added + 1][1] = "G"
               /\ LiveCount(call) = 0
               /\ call'.exc = "none"]_vars

\* -I 1 1 -es 0 1 1 -n 1 2: -n comes after -es and fails
LateSizeChange_Witness ==
    /\ call.fn = "MsCmdParser"
    /\ call.exc = "NameError"
    /\ call.added = 2
    /\ call.sorted_cmd[2][1] = "es"
    /\ call.sorted_cmd[3][1] = "n"
====
